---- MODULE Spec2Model ----
(***************************************************************************)
(* A model of nyxflare (src/src/main.rs): the console controller `App`,    *)
(* its key handlers, the control loop `run_app`, and the two DnsBackend    *)
(* implementations (CloudflareBackend, MockBackend).                       *)
(*                                                                         *)
(* Text is modelled as a sequence of one-character strings, so trimming,   *)
(* lower-casing, substring search, number formatting and number parsing    *)
(* are computed as the code computes them.                                 *)
(***************************************************************************)
EXTENDS Integers, Sequences, FiniteSets, TLC

(***************************************************************************)
(* Bounds of the model.                                                    *)
(***************************************************************************)
\* accounts the session may hold (the add-account key is not pressed beyond it)
MaxAccounts == 2
\* editing keys (a character, Backspace) one open add-account form and one
\* open record form takes
MaxTypedAccount == 2
MaxTypedRecord == 1
\* editing keys one add-account form takes on the first run
MaxTypedFirstRun == 3
\* editing keys one record form takes in the session that edits drafts
MaxTypedDraft == 2
\* characters the search buffer holds in the session that filters
MaxFilterLen == 2
\* records the server returns, and the largest page size a draw sets, in the
\* session that pages
MaxPagingRecords == 8
MaxPageSize == 4
\* characters the search buffer holds
MaxSearchLen == 1
\* create, update and delete calls one session dispatches
MaxWrites == 3
\* records one zone of the deterministic adapter may hold (create is not
\* dispatched beyond it)
MaxRecords == 4

(***************************************************************************)
(* Text helpers (Rust's str / String methods used by the code).            *)
(***************************************************************************)
None == "None"

Some(v) == <<"Some", v>>

Unwrap(opt) == opt[2]

\* char::is_whitespace, over the characters the model types
IsWhitespace(c) == c = " "

\* char::to_lowercase, over the letters the model uses
LowerChar(c) ==
    CASE c = "A" -> "a"
      [] c = "B" -> "b"
      [] c = "C" -> "c"
      [] c = "D" -> "d"
      [] c = "E" -> "e"
      [] c = "M" -> "m"
      [] c = "N" -> "n"
      [] c = "Q" -> "q"
      [] c = "T" -> "t"
      [] c = "X" -> "x"
      [] OTHER -> c

\* str::to_lowercase
ToLower(s) == [i \in 1..Len(s) |-> LowerChar(s[i])]

RECURSIVE TrimStart(_)
TrimStart(s) ==
    IF s # <<>> /\ IsWhitespace(Head(s)) THEN TrimStart(Tail(s)) ELSE s

RECURSIVE TrimEnd(_)
TrimEnd(s) ==
    IF s # <<>> /\ IsWhitespace(s[Len(s)])
    THEN TrimEnd(SubSeq(s, 1, Len(s) - 1))
    ELSE s

\* str::trim
Trim(s) == TrimEnd(TrimStart(s))

\* str::contains(&needle)
Contains(hay, needle) ==
    \E i \in 0..(Len(hay) - Len(needle)) :
        SubSeq(hay, i + 1, i + Len(needle)) = needle

\* str::replace(' ', "")
RECURSIVE RemoveSpaces(_)
RemoveSpaces(s) ==
    IF s = <<>> THEN <<>>
    ELSE IF Head(s) = " " THEN RemoveSpaces(Tail(s))
    ELSE <<Head(s)>> \o RemoveSpaces(Tail(s))

\* String::pop
Pop(s) == IF s = <<>> THEN s ELSE SubSeq(s, 1, Len(s) - 1)

DigitChars == <<"0", "1", "2", "3", "4", "5", "6", "7", "8", "9">>

\* usize / u32 Display: the decimal digits of n
RECURSIVE NumToString(_)
NumToString(n) ==
    IF n < 10 THEN <<DigitChars[n + 1]>>
    ELSE NumToString(n \div 10) \o <<DigitChars[(n % 10) + 1]>>

IsDigit(c) == \E d \in 1..10 : DigitChars[d] = c

DigitValue(c) == (CHOOSE d \in 1..10 : DigitChars[d] = c) - 1

RECURSIVE DigitsValue(_)
DigitsValue(s) ==
    IF s = <<>> THEN 0
    ELSE 10 * DigitsValue(SubSeq(s, 1, Len(s) - 1)) + DigitValue(s[Len(s)])

\* u32::MAX (4294967295) as decimal digits: the value is beyond the
\* integers of the model checker, so the range test is made on the digits
U32MaxDigits == <<"4", "2", "9", "4", "9", "6", "7", "2", "9", "5">>

RECURSIVE StripZeros(_)
StripZeros(s) ==
    IF Len(s) > 1 /\ Head(s) = "0" THEN StripZeros(Tail(s)) ELSE s

\* s > t for digit strings of one length
RECURSIVE DigitsGreater(_, _)
DigitsGreater(s, t) ==
    IF s = <<>> THEN FALSE
    ELSE IF Head(s) # Head(t) THEN DigitValue(Head(s)) > DigitValue(Head(t))
    ELSE DigitsGreater(Tail(s), Tail(t))

\* the digits denote a value above u32::MAX
OverflowsU32(digits) ==
    LET d == StripZeros(digits)
    IN  \/ Len(d) > Len(U32MaxDigits)
        \/ Len(d) = Len(U32MaxDigits) /\ DigitsGreater(d, U32MaxDigits)

\* str::parse::<u32>: an optional leading '+', then one or more digits, and
\* a value that fits 32 bits; anything else is an error
ParseU32(s) ==
    LET digits == IF s # <<>> /\ Head(s) = "+" THEN Tail(s) ELSE s
    IN  IF digits = <<>> \/ \E i \in 1..Len(digits) : ~IsDigit(digits[i])
        THEN None
        ELSE IF OverflowsU32(digits) THEN None
        ELSE Some(DigitsValue(digits))

\* usize::saturating_sub
SaturatingSub(a, b) == IF a >= b THEN a - b ELSE 0

Min(a, b) == IF a <= b THEN a ELSE b

Max(a, b) == IF a >= b THEN a ELSE b

\* usize::div_ceil
DivCeil(a, b) == (a + b - 1) \div b

(***************************************************************************)
(* Entity model.                                                           *)
(***************************************************************************)
\* struct Account
Account(name, token, email, account_id, auth_mode) ==
    [name |-> name, api_token |-> token, email |-> email,
     account_id |-> account_id, auth_mode |-> auth_mode]

\* struct Zone
Zone(id, name) == [id |-> id, name |-> name]

\* struct DnsRecord
DnsRecord(id, name, record_type, content, ttl, proxied) ==
    [id |-> id, name |-> name, record_type |-> record_type,
     content |-> content, ttl |-> ttl, proxied |-> proxied]

\* Result<T>
Ok(v) == [ok |-> TRUE, val |-> v]

Err(msg) == [ok |-> FALSE, msg |-> msg]

(***************************************************************************)
(* MockBackend: `records` maps a zone id to the zone's record list.  The   *)
(* map is a function whose domain is the set of seeded zone ids.           *)
(***************************************************************************)
\* MockBackend::new
MockBackendNew == [kind |-> "Mock", records |-> <<>>]

MockHas(b, zone_id) == zone_id \in DOMAIN b.records

\* the three records ensure_zone seeds
SeedRecords(zone) ==
    << DnsRecord(zone.id \o <<"-", "a">>,
                 <<"a", "p", "i", ".">> \o zone.name,
                 <<"A">>, <<"2", "0", "3", ".", "0", ".", "1", "1", "3", ".", "1", "0">>,
                 300, TRUE),
       DnsRecord(zone.id \o <<"-", "b">>,
                 <<"c", "d", "n", ".">> \o zone.name,
                 <<"C", "N", "A", "M", "E">>,
                 <<"e", "d", "g", "e", ".", "s", "e", "r", "v", "i", "c", "e", ".", "n", "e", "t">>,
                 120, TRUE),
       DnsRecord(zone.id \o <<"-", "c">>,
                 <<"m", "a", "i", "l", ".">> \o zone.name,
                 <<"M", "X">>,
                 <<"m", "a", "i", "l", ".">> \o zone.name,
                 3600, FALSE) >>

\* ensure_zone adding the seed to a zone that is already stored
SeedAgain(b, zone) ==
    IF MockHas(b, zone.id)
    THEN [b EXCEPT !.records[zone.id] = @ \o SeedRecords(zone)]
    ELSE [b EXCEPT !.records = (zone.id :> SeedRecords(zone)) @@ b.records]

\* MockBackend::ensure_zone: entry(zone.id).or_insert_with(seed)
ensure_zone(b, zone) ==
    IF MockHas(b, zone.id) THEN b
    ELSE [b EXCEPT !.records = (zone.id :> SeedRecords(zone)) @@ b.records]

\* MockBackend::list_zones
MockListZones(account) ==
    LET base == ToLower(RemoveSpaces(account.name))
    IN  << Zone(base \o <<"-", "0", "1">>,
                base \o <<".", "e", "x", "a", "m", "p", "l", "e", ".", "c", "o", "m">>),
           Zone(base \o <<"-", "0", "2">>,
                base \o <<".", "s", "e", "r", "v", "i", "c", "e", "s", ".", "i", "o">>) >>

\* MockBackend::list_records: the adapter after the call, and the result
MockListRecords(b, zone) ==
    LET b1 == ensure_zone(b, zone)
    IN  [backend |-> b1, res |-> Ok(b1.records[zone.id])]

\* the id MockBackend::create_record assigns
MockNewId(zone, count) == zone.id \o <<"-">> \o NumToString(count + 1)

\* create_record pushing the new record onto the list of every stored zone
CreateInEveryZone(b, zone, record) ==
    LET b1 == ensure_zone(b, zone)
        new_record == [record EXCEPT !.id = MockNewId(zone, Len(b1.records[zone.id]))]
    IN  [backend |-> [b1 EXCEPT !.records =
                            [id \in DOMAIN @ |-> Append(@[id], new_record)]],
         res |-> Ok(new_record)]

\* MockBackend::create_record
MockCreateRecord(b, zone, record) ==
    LET b1 == ensure_zone(b, zone)
        new_record == [record EXCEPT !.id = MockNewId(zone, Len(b1.records[zone.id]))]
    IN  [backend |-> [b1 EXCEPT !.records[zone.id] = Append(@, new_record)],
         res |-> Ok(new_record)]

\* records.iter_mut().find(|r| r.id == id): the first position holding id, or 0
FindById(recs, id) ==
    IF \E i \in 1..Len(recs) : recs[i].id = id
    THEN CHOOSE i \in 1..Len(recs) :
            recs[i].id = id /\ \A j \in 1..(i - 1) : recs[j].id # id
    ELSE 0

\* update_record storing the record at the end when no stored id matches
UpdateOrAppend(b, zone, record) ==
    LET b1 == ensure_zone(b, zone)
        at == FindById(b1.records[zone.id], record.id)
    IN  [backend |-> IF at = 0 THEN [b1 EXCEPT !.records[zone.id] = Append(@, record)]
                     ELSE [b1 EXCEPT !.records[zone.id][at] = record],
         res |-> Ok(record)]

\* MockBackend::update_record
MockUpdateRecord(b, zone, record) ==
    LET b1 == ensure_zone(b, zone)
        at == FindById(b1.records[zone.id], record.id)
    IN  [backend |-> IF at = 0 THEN b1
                     ELSE [b1 EXCEPT !.records[zone.id][at] = record],
         res |-> Ok(record)]

\* Vec::retain(|r| r.id != record_id)
RetainOthers(recs, record_id) == SelectSeq(recs, LAMBDA r : r.id # record_id)

\* delete_record dropping the entry of a zone whose last record it removed
DeleteAndForget(b, zone, record_id) ==
    [backend |-> IF MockHas(b, zone.id)
                 THEN IF RetainOthers(b.records[zone.id], record_id) = <<>>
                      THEN [b EXCEPT !.records =
                                [z \in DOMAIN b.records \ {zone.id} |-> b.records[z]]]
                      ELSE [b EXCEPT !.records[zone.id] = RetainOthers(@, record_id)]
                 ELSE b,
     res |-> Ok(TRUE)]

\* MockBackend::delete_record (no ensure_zone: an unseeded zone stays unseeded)
MockDeleteRecord(b, zone, record_id) ==
    [backend |-> IF MockHas(b, zone.id)
                 THEN [b EXCEPT !.records[zone.id] = RetainOthers(@, record_id)]
                 ELSE b,
     res |-> Ok(TRUE)]

(***************************************************************************)
(* CloudflareBackend.  The adapter keeps no state between calls; what a    *)
(* call returns is decided by the remote server, so each answer is an      *)
(* input of the step: `o` holds the answer the server gives to the         *)
(* list-zones call, to the list-records call and to the write call         *)
(* (create, update or delete) of one handler, and the outcome of writing   *)
(* the config file.                                                        *)
(***************************************************************************)
CfNew == [kind |-> "Cloudflare"]

\* zones the remote account may hold
CfZ1 == Zone(<<"z", "1">>, <<"o", "n", "e">>)

CfZ2 == Zone(<<"z", "2">>, <<"t", "w", "o">>)

CfZoneLists == { <<>>, <<CfZ1, CfZ2>> }

\* records a remote zone may hold
CfR1 == DnsRecord(<<"r", "1">>, <<"q", "1">>, <<"A">>, <<"1">>, 300, FALSE)

CfR2 == DnsRecord(<<"r", "2">>, <<"m">>, <<"M", "X">>, <<"Q">>, 60, TRUE)

CfR3 == DnsRecord(<<"r", "3">>, <<"t">>, <<"T", "X", "T">>, <<"3">>, 429496729, FALSE)

CfRecordLists == { <<>>, <<CfR1, CfR2, CfR3>> }

\* the error a failed call returns ("Zones (500): boom | body: ...")
CfFailure == "boom"

\* Config::save failing (fs::create_dir_all / fs::write)
SaveFailure == "io error"

\* the answers one handler may need.  `needs` names the answers the handler
\* can consult (an answer it never reads is fixed, not enumerated); the
\* deterministic adapter never fails and reads no server
Answers(b, needs) ==
    [zones   : IF b.kind = "Mock" \/ "zones" \notin needs THEN {Ok(<<>>)}
               ELSE {Err(CfFailure)} \cup {Ok(z) : z \in CfZoneLists},
     records : IF b.kind = "Mock" \/ "records" \notin needs THEN {Ok(<<>>)}
               ELSE {Err(CfFailure)} \cup {Ok(r) : r \in CfRecordLists},
     write   : IF b.kind = "Mock" \/ "write" \notin needs THEN {TRUE} ELSE BOOLEAN,
     save    : IF "save" \notin needs THEN {TRUE} ELSE BOOLEAN]

(***************************************************************************)
(* CloudflareBackend on the wire.  A request carries the headers with_auth *)
(* adds; a response is an HTTP status and a body text.  The body is a      *)
(* sequence of characters; serde_json::from_str accepts the texts that     *)
(* serialise an envelope of the expected type.                             *)
(***************************************************************************)
\* a character that takes two bytes in UTF-8
WideChar == "é"

\* char::len_utf8
Utf8Len(c) == IF c = WideChar THEN 2 ELSE 1

\* str::len: the length of the text in bytes
ByteLen(text) == Len(text) + Cardinality({i \in DOMAIN text : Utf8Len(text[i]) = 2})

\* const LIMIT of truncate_body
LIMIT == 200

\* a panic of the thread that made the call
Panic == [panic |-> TRUE]

\* truncate_body: &text[..LIMIT] slices at byte LIMIT and panics when that
\* byte is inside a character
truncate_body(text) ==
    IF ByteLen(text) > LIMIT
    THEN IF \E k \in 0..Len(text) : ByteLen(SubSeq(text, 1, k)) = LIMIT
         THEN Ok(SubSeq(text, 1,
                        CHOOSE k \in 0..Len(text) : ByteLen(SubSeq(text, 1, k)) = LIMIT)
                    \o <<".", ".", ".">>)
         ELSE Panic
    ELSE Ok(text)

\* StatusCode::is_success
IsSuccess(status) == status >= 200 /\ status <= 299

\* with_auth choosing the key headers whenever the account has an email
KeyHeadersWhenEmail(account) ==
    IF account.email # None
    THEN << [name |-> "X-Auth-Email", value |-> Unwrap(account.email)],
            [name |-> "X-Auth-Key", value |-> account.api_token] >>
    ELSE IF account.auth_mode = "Token"
         THEN << [name |-> "Authorization",
                  value |-> <<"B", "e", "a", "r", "e", "r", " ">> \o account.api_token] >>
         ELSE <<>>

\* CloudflareBackend::with_auth: the headers added to the request
with_auth(account) ==
    IF account.auth_mode = "Token"
    THEN << [name |-> "Authorization",
             value |-> <<"B", "e", "a", "r", "e", "r", " ">> \o account.api_token] >>
    ELSE IF account.email # None
         THEN << [name |-> "X-Auth-Email", value |-> Unwrap(account.email)],
                 [name |-> "X-Auth-Key", value |-> account.api_token] >>
         ELSE <<>>

\* struct CfResponse / CfItemResponse / CfDeleteResponse as the server sends
\* it: result is null, a list of zones, a list of records, or one record
Envelope(success, errors, result) ==
    [success |-> success, errors |-> errors, result |-> result]

NoResult == [kind |-> "null"]

ZonesResult(zs) == [kind |-> "zones", val |-> zs]

RecordsResult(rs) == [kind |-> "records", val |-> rs]

RecordResult(r) == [kind |-> "record", item |-> r]

\* struct CfError
CfError(message) == [message |-> message]

JsonTrue == <<"t", "r", "u", "e">>

JsonFalse == <<"f", "a", "l", "s", "e">>

JsonNull == <<"n", "u", "l", "l">>

\* the text up to the success flag of an envelope, and the text that opens
\* an error of its error list
JsonHead == <<"{", "\"", "s", "u", "c", "c", "e", "s", "s", "\"", ":">>

JsonErrors == <<",", "\"", "e", "r", "r", "o", "r", "s", "\"", ":", "[">>

JsonMessage == <<"{", "\"", "m", "e", "s", "s", "a", "g", "e", "\"", ":", "\"">>

\* the JSON text of a zone, of a record, of an error and of a list
JsonZone(z) ==
    <<"{", "\"", "i", "d", "\"", ":", "\"">> \o z.id \o <<"\"", ",", "\"", "n", "a", "m", "e", "\"", ":", "\"">> \o z.name \o <<"\"", "}">>

JsonRecord(r) ==
    <<"{", "\"", "i", "d", "\"", ":", "\"">> \o r.id \o <<"\"", ",", "\"", "n", "a", "m", "e", "\"", ":", "\"">> \o r.name \o <<"\"", ",", "\"", "t", "y", "p", "e", "\"", ":", "\"">> \o r.record_type
        \o <<"\"", ",", "\"", "c", "o", "n", "t", "e", "n", "t", "\"", ":", "\"">> \o r.content \o <<"\"", ",", "\"", "t", "t", "l", "\"", ":">> \o NumToString(r.ttl)
        \o <<",", "\"", "p", "r", "o", "x", "i", "e", "d", "\"", ":">> \o (IF r.proxied THEN JsonTrue ELSE JsonFalse)
        \o <<"}">>

JsonError(e) == JsonMessage \o e.message \o <<"\"", "}">>

RECURSIVE JsonList(_)
JsonList(items) ==
    IF items = <<>> THEN <<>>
    ELSE IF Len(items) = 1 THEN items[1]
    ELSE items[1] \o <<",">> \o JsonList(Tail(items))

JsonResult(result) ==
    CASE result.kind = "null" -> JsonNull
      [] result.kind = "zones" ->
            <<"[">> \o JsonList([i \in DOMAIN result.val |-> JsonZone(result.val[i])])
                \o <<"]">>
      [] result.kind = "records" ->
            <<"[">> \o JsonList([i \in DOMAIN result.val |-> JsonRecord(result.val[i])])
                \o <<"]">>
      [] OTHER -> JsonRecord(result.item)

\* the body text of an envelope
Serialize(e) ==
    JsonHead \o (IF e.success THEN JsonTrue ELSE JsonFalse) \o JsonErrors
        \o JsonList([i \in DOMAIN e.errors |-> JsonError(e.errors[i])])
        \o <<"]", ",", "\"", "r", "e", "s", "u", "l", "t", "\"", ":">> \o JsonResult(e.result) \o <<"}">>

\* n times the character c
Filler(c, n) == [i \in 1..n |-> c]

\* error messages a server sends: a short one, one that makes the body
\* longer than LIMIT bytes, and one whose last character lies across byte
\* LIMIT of the body of a failed envelope
MsgDenied == <<"d", "e", "n", "i", "e", "d">>

MsgLong == Filler("x", LIMIT)

MsgWide ==
    Filler("x", LIMIT - Len(JsonHead \o JsonFalse \o JsonErrors \o JsonMessage) - 1)
        \o <<WideChar>>

CfErrorLists ==
    { <<>>, <<CfError(MsgDenied)>>, <<CfError(MsgDenied), CfError(MsgLong)>>,
      <<CfError(MsgLong)>>, <<CfError(MsgWide)>> }

CfResults == { NoResult, ZonesResult(<<CfZ1>>), RecordsResult(<<CfR1>>), RecordResult(CfR1) }

\* the envelopes a server sends
Envelopes ==
    { Envelope(s, errs, r) : s \in BOOLEAN, errs \in CfErrorLists, r \in CfResults }

\* bodies that are no envelope: an empty body and error pages of LIMIT
\* characters and of one more
PageHead == <<"<", "h", "t", "m", "l", ">">>

PageTexts ==
    { <<>>, PageHead \o Filler("x", LIMIT - Len(PageHead)),
      PageHead \o Filler("x", LIMIT + 1 - Len(PageHead)) }

\* serde_json::from_str to the envelope type of an operation: kinds names the
\* results the type can hold (an absent or unknown field is ignored)
Parse(text, kinds) ==
    IF \E e \in Envelopes : e.result.kind \in kinds /\ Serialize(e) = text
    THEN Some(CHOOSE e \in Envelopes : e.result.kind \in kinds /\ Serialize(e) = text)
    ELSE None

\* .with_context(|| format!("Failed to parse ... response: {text}"))
ParseError(what, text) == [context |-> what, text |-> text]

\* error_message of the three envelope types
error_message(parsed) ==
    IF parsed.errors = <<>> THEN <<"U", "n", "k", "n", "o", "w", "n", " ", "C", "l", "o", "u", "d", "f",
      "l", "a", "r", "e", " ", "A", "P", "I", " ", "e", "r", "r", "o", "r">>
    ELSE parsed.errors[1].message

\* anyhow!(format!("{label} ({status}): {} | body: {}", parsed.error_message(),
\* truncate_body(&text)))
ApiError(label, status, parsed, text) ==
    IF truncate_body(text) = Panic THEN Panic
    ELSE Err([label |-> label, status |-> status, message |-> error_message(parsed),
              body |-> truncate_body(text).val])

\* anyhow!("... succeeded but missing result")
MissingResult(label) == [label |-> label, missing |-> "result"]

\* the five calls, from the response on: the status and the text are read,
\* the text is parsed, the status and the success flag are tested, and the
\* result is converted
CfListZones(response) ==
    LET parsed == Parse(response.text, {"null", "zones", "records"})
    IN  IF parsed = None
        THEN Err(ParseError("Cloudflare zones", response.text))
        ELSE IF ~IsSuccess(response.status) \/ ~Unwrap(parsed).success
        THEN ApiError("Zones", response.status, Unwrap(parsed), response.text)
        ELSE IF Unwrap(parsed).result.kind = "null" THEN Ok(<<>>)
        ELSE Ok([i \in DOMAIN Unwrap(parsed).result.val |->
                    Zone(Unwrap(parsed).result.val[i].id,
                         Unwrap(parsed).result.val[i].name)])

CfListRecords(response) ==
    LET parsed == Parse(response.text, {"null", "records"})
    IN  IF parsed = None
        THEN Err(ParseError("Cloudflare dns_records", response.text))
        ELSE IF ~IsSuccess(response.status) \/ ~Unwrap(parsed).success
        THEN ApiError("Records", response.status, Unwrap(parsed), response.text)
        ELSE IF Unwrap(parsed).result.kind = "null" THEN Ok(<<>>)
        ELSE Ok(Unwrap(parsed).result.val)

CfCreateRecord(response) ==
    LET parsed == Parse(response.text, {"null", "record"})
    IN  IF parsed = None
        THEN Err(ParseError("create record", response.text))
        ELSE IF ~IsSuccess(response.status) \/ ~Unwrap(parsed).success
        THEN ApiError("Create", response.status, Unwrap(parsed), response.text)
        ELSE IF Unwrap(parsed).result.kind = "null" THEN Err(MissingResult("Create"))
        ELSE Ok(Unwrap(parsed).result.item)

CfUpdateRecord(response) ==
    LET parsed == Parse(response.text, {"null", "record"})
    IN  IF parsed = None
        THEN Err(ParseError("update record", response.text))
        ELSE IF ~IsSuccess(response.status) \/ ~Unwrap(parsed).success
        THEN ApiError("Update", response.status, Unwrap(parsed), response.text)
        ELSE IF Unwrap(parsed).result.kind = "null" THEN Err(MissingResult("Update"))
        ELSE Ok(Unwrap(parsed).result.item)

CfDeleteRecord(response) ==
    LET parsed == Parse(response.text, {"null", "zones", "records", "record"})
    IN  IF parsed = None
        THEN Err(ParseError("delete record", response.text))
        ELSE IF ~IsSuccess(response.status) \/ ~Unwrap(parsed).success
        THEN ApiError("Delete", response.status, Unwrap(parsed), response.text)
        ELSE Ok(TRUE)

(***************************************************************************)
(* impl DnsBackend for Backend: dispatch on the adapter chosen at startup. *)
(* Each operator returns the adapter after the call and the call's result. *)
(***************************************************************************)
list_zones(b, account, o) ==
    IF b.kind = "Mock"
    THEN [backend |-> b, res |-> Ok(MockListZones(account))]
    ELSE [backend |-> b, res |-> o.zones]

list_records(b, account, zone, o) ==
    IF b.kind = "Mock"
    THEN MockListRecords(b, zone)
    ELSE [backend |-> b, res |-> o.records]

\* the network adapter returns the server's echo of the written record; the
\* server assigns the id of a created record
backend_create_record(b, account, zone, record, o) ==
    IF b.kind = "Mock"
    THEN MockCreateRecord(b, zone, record)
    ELSE [backend |-> b,
          res |-> IF o.write
                  THEN Ok([record EXCEPT !.id = <<"r", "9">>])
                  ELSE Err(CfFailure)]

backend_update_record(b, account, zone, record, o) ==
    IF b.kind = "Mock"
    THEN MockUpdateRecord(b, zone, record)
    ELSE [backend |-> b, res |-> IF o.write THEN Ok(record) ELSE Err(CfFailure)]

backend_delete_record(b, account, zone, record_id, o) ==
    IF b.kind = "Mock"
    THEN MockDeleteRecord(b, zone, record_id)
    ELSE [backend |-> b, res |-> IF o.write THEN Ok(TRUE) ELSE Err(CfFailure)]

(***************************************************************************)
(* The controller.  `a` is the App struct together with what the handlers  *)
(* act on besides it: the config file on disk, the backend calls issued    *)
(* by the running handler (`calls`) and the error the running handler has  *)
(* returned, if any (`err`, Rust's `?`).  Indices are 0-based as in the    *)
(* code; sequences are 1-based.                                            *)
(***************************************************************************)
ModeNormal == [tag |-> "Normal"]

\* AccountForm::default
AccountFormDefault ==
    [name |-> <<>>, api_token |-> <<>>, email |-> <<>>, account_id |-> <<>>,
     field_index |-> 0]

ModeAddingAccount(form) == [tag |-> "AddingAccount", form |-> form]

ModeRecordForm(form) == [tag |-> "RecordForm", form |-> form]

ModeConfirmDelete(record_id, record_name) ==
    [tag |-> "ConfirmDelete", record_id |-> record_id, record_name |-> record_name]

ModeSearching(text) == [tag |-> "Searching", text |-> text]

\* one backend call, as the handler issued it
Call(op, account, zone, arg, ok) ==
    [op |-> op, account |-> account, zone |-> zone, arg |-> arg, ok |-> ok]

Failed(a) == a.err # None

\* App::current_account
current_account(a) ==
    IF a.selected_account < Len(a.accounts)
    THEN Some(a.accounts[a.selected_account + 1])
    ELSE None

\* App::current_zone
current_zone(a) ==
    IF a.selected_zone < Len(a.zones)
    THEN Some(a.zones[a.selected_zone + 1])
    ELSE None

\* the match of one record in App::filtered_records
MatchesFilter(r, needle) ==
    \/ Contains(ToLower(r.name), needle)
    \/ Contains(ToLower(r.content), needle)
    \/ Contains(ToLower(r.record_type), needle)

\* filtered_records matching the name alone
FilterByName(a) ==
    IF Trim(a.record_filter) = <<>>
    THEN a.records
    ELSE SelectSeq(a.records,
                   LAMBDA r : Contains(ToLower(r.name), ToLower(a.record_filter)))

\* App::filtered_records
filtered_records(a) ==
    IF Trim(a.record_filter) = <<>>
    THEN a.records
    ELSE SelectSeq(a.records, LAMBDA r : MatchesFilter(r, ToLower(a.record_filter)))

\* App::page_size
page_size(a) == Max(a.record_page_size, 1)

\* record_page_count rounding down
FloorPageCount(a, total) ==
    IF total = 0 THEN 0 ELSE total \div page_size(a)

\* App::record_page_count
record_page_count(a, total) ==
    IF total = 0 THEN 0 ELSE DivCeil(total, page_size(a))

\* App::paged_records; the slice filtered[start..end] panics when start > end
paged_records(a) ==
    LET filtered == filtered_records(a)
        start == a.record_page * page_size(a)
        end == Min(start + page_size(a), Len(filtered))
    IN  IF filtered = <<>> THEN Ok(filtered)
        ELSE IF start > end THEN Err("slice index out of range")
        ELSE Ok(SubSeq(filtered, start + 1, end))

\* App::current_record
current_record(a) ==
    LET filtered == filtered_records(a)
    IN  IF a.selected_record < Len(filtered)
        THEN Some(filtered[a.selected_record + 1])
        ELSE None

\* ensure_record_visible without the min against the last page
PageOfSelectionUnclamped(a, total) ==
    IF total = 0
    THEN [a EXCEPT !.record_page = 0, !.selected_record = 0]
    ELSE [a EXCEPT !.record_page = a.selected_record \div page_size(a)]

\* App::ensure_record_visible
ensure_record_visible(a, total) ==
    IF total = 0
    THEN [a EXCEPT !.record_page = 0, !.selected_record = 0]
    ELSE [a EXCEPT !.record_page =
            Min(a.selected_record \div page_size(a),
                SaturatingSub(record_page_count(a, total), 1))]

\* self.backend.<op>(..)?: r is what the adapter answered.  The call joins the
\* calls of the running handler, and an Err is the error the function returns
Called(a, r, op, account, zone, arg) ==
    [a EXCEPT !.backend = r.backend,
              !.calls = Append(@, Call(op, account, zone, arg, r.res.ok)),
              !.err = IF r.res.ok THEN @ ELSE Some(r.res.msg)]

\* App::refresh_zones
refresh_zones(a, o) ==
    LET account == current_account(a)
        Store(a1, listed) ==
            IF Failed(a1) THEN a1
            ELSE [a1 EXCEPT
                    !.zones = listed.val,
                    !.selected_zone = IF @ >= Len(listed.val) THEN 0 ELSE @,
                    !.last_message =
                        <<"Loaded", Len(listed.val), "zone(s) for",
                          Unwrap(account).name>>]
        Fetch(r) ==
            Store(Called(a, r, "list_zones", Unwrap(account), None, None), r.res)
    IN  IF account = None
        THEN [a EXCEPT !.zones = <<>>, !.records = <<>>]
        ELSE Fetch(list_zones(a.backend, Unwrap(account), o))

\* App::refresh_records
refresh_records(a, o) ==
    LET account == current_account(a)
        zone == current_zone(a)
        Store(a1, listed) ==
            IF Failed(a1) THEN a1
            ELSE [a1 EXCEPT
                    !.records = listed.val,
                    !.last_message =
                        <<Len(listed.val), "record(s) in", Unwrap(zone).name>>,
                    !.selected_record = 0,
                    !.record_page = 0]
        Fetch(r) ==
            Store(Called(a, r, "list_records", Unwrap(account), Unwrap(zone), None),
                  r.res)
    IN  IF account = None \/ zone = None
        THEN [a EXCEPT !.records = <<>>, !.selected_record = 0, !.record_page = 0]
        ELSE Fetch(list_records(a.backend, Unwrap(account), Unwrap(zone), o))

\* App::refresh_current
refresh_current(a, o) ==
    LET Records(a1) == IF Failed(a1) THEN a1 ELSE refresh_records(a1, o)
    IN  Records(refresh_zones(a, o))

\* next_account without the reset of selected_zone
NextKeepingZone(a, o) ==
    IF a.accounts = <<>> THEN a
    ELSE refresh_current([a EXCEPT !.selected_account = (@ + 1) % Len(a.accounts)], o)

\* App::next_account
next_account(a, o) ==
    IF a.accounts = <<>> THEN a
    ELSE refresh_current(
            [a EXCEPT !.selected_account = (@ + 1) % Len(a.accounts),
                      !.selected_zone = 0], o)

\* App::previous_account
previous_account(a, o) ==
    IF a.accounts = <<>> THEN a
    ELSE refresh_current(
            [a EXCEPT !.selected_account = IF @ = 0 THEN Len(a.accounts) - 1 ELSE @ - 1,
                      !.selected_zone = 0], o)

\* next_zone dropping the filter with the records of the zone left
NextZoneClearsFilter(a, o) ==
    IF a.zones = <<>> THEN a
    ELSE refresh_records([a EXCEPT !.selected_zone = (@ + 1) % Len(a.zones),
                                   !.record_filter = <<>>], o)

\* App::next_zone
next_zone(a, o) ==
    IF a.zones = <<>> THEN a
    ELSE refresh_records([a EXCEPT !.selected_zone = (@ + 1) % Len(a.zones)], o)

\* previous_zone staying on the first zone instead of wrapping to the last
PreviousZoneStops(a, o) ==
    IF a.zones = <<>> THEN a
    ELSE refresh_records(
            [a EXCEPT !.selected_zone = IF @ = 0 THEN 0 ELSE @ - 1], o)

\* App::previous_zone
previous_zone(a, o) ==
    IF a.zones = <<>> THEN a
    ELSE refresh_records(
            [a EXCEPT !.selected_zone = IF @ = 0 THEN Len(a.zones) - 1 ELSE @ - 1], o)

\* next_record without the min against the last index
StepPastEnd(a) ==
    ensure_record_visible([a EXCEPT !.selected_record = @ + 1],
                          Len(filtered_records(a)))

\* App::next_record
next_record(a) ==
    LET total == Len(filtered_records(a))
    IN  IF total = 0 THEN a
        ELSE ensure_record_visible(
                [a EXCEPT !.selected_record = Min(@ + 1, SaturatingSub(total, 1))], total)

\* previous_record wrapping from the first record to the last
PreviousRecordWraps(a) ==
    LET total == Len(filtered_records(a))
    IN  IF total = 0 THEN a
        ELSE ensure_record_visible(
                [a EXCEPT !.selected_record = IF @ = 0 THEN total - 1 ELSE @ - 1], total)

\* App::previous_record
previous_record(a) ==
    LET total == Len(filtered_records(a))
    IN  IF total = 0 THEN a
        ELSE ensure_record_visible(
                [a EXCEPT !.selected_record = IF @ = 0 THEN 0 ELSE @ - 1], total)

\* next_page turning the page without moving the selection to it
NextPageKeepsSelection(a) ==
    LET page_count == record_page_count(a, Len(filtered_records(a)))
        page == (a.record_page + 1) % page_count
    IN  IF page_count = 0 THEN a
        ELSE [a EXCEPT !.record_page = page]

\* App::next_page
next_page(a) ==
    LET page_count == record_page_count(a, Len(filtered_records(a)))
        page == (a.record_page + 1) % page_count
    IN  IF page_count = 0 THEN a
        ELSE [a EXCEPT !.record_page = page, !.selected_record = page * page_size(a)]

\* previous_page without the wrap from the first page to the last
PreviousPageNoWrap(a) ==
    LET page_count == record_page_count(a, Len(filtered_records(a)))
        page == IF a.record_page = 0 THEN 0 ELSE a.record_page - 1
    IN  IF page_count = 0 THEN a
        ELSE [a EXCEPT !.record_page = page, !.selected_record = page * page_size(a)]

\* App::previous_page
previous_page(a) ==
    LET page_count == record_page_count(a, Len(filtered_records(a)))
        page == IF a.record_page = 0 THEN page_count - 1 ELSE a.record_page - 1
    IN  IF page_count = 0 THEN a
        ELSE [a EXCEPT !.record_page = page, !.selected_record = page * page_size(a)]

\* update_record_page_size without its clamps: only the size is stored
StoreSizeOnly(a, area_height) ==
    [a EXCEPT !.record_page_size = Max(SaturatingSub(area_height, 3), 1)]

\* update_record_page_size without the last step, ensure_record_visible
ClampWithoutResync(a, area_height) ==
    LET new_size == Max(SaturatingSub(area_height, 3), 1)
        Clamp(a1, total) ==
            [a1 EXCEPT
                !.record_page = Min(@, SaturatingSub(record_page_count(a1, total), 1)),
                !.selected_record = Min(@, SaturatingSub(total, 1))]
        Resize(a1) == Clamp(a1, Len(filtered_records(a1)))
    IN  IF new_size = a.record_page_size THEN a
        ELSE Resize([a EXCEPT !.record_page_size = new_size])

\* App::update_record_page_size
update_record_page_size(a, area_height) ==
    LET new_size == Max(SaturatingSub(area_height, 3), 1)
        Clamp(a1, total) ==
            ensure_record_visible(
                [a1 EXCEPT
                    !.record_page =
                        Min(@, SaturatingSub(record_page_count(a1, total), 1)),
                    !.selected_record = Min(@, SaturatingSub(total, 1))],
                total)
        Resize(a1) == Clamp(a1, Len(filtered_records(a1)))
    IN  IF new_size = a.record_page_size THEN a
        ELSE Resize([a EXCEPT !.record_page_size = new_size])

(***************************************************************************)
(* Add-account form.                                                       *)
(***************************************************************************)
\* the field AccountForm::active_value_mut selects
ActiveField(form) ==
    CASE form.field_index = 0 -> "name"
      [] form.field_index = 1 -> "api_token"
      [] form.field_index = 2 -> "email"
      [] OTHER -> "account_id"

\* AccountForm::next_field
next_field(form) == [form EXCEPT !.field_index = Min(@ + 1, 3)]

\* AccountForm::previous_field
previous_field(form) == [form EXCEPT !.field_index = IF @ = 0 THEN 0 ELSE @ - 1]

\* AccountForm::insert_char
insert_char(form, c) == [form EXCEPT ![ActiveField(form)] = Append(@, c)]

\* AccountForm::backspace
backspace(form) == [form EXCEPT ![ActiveField(form)] = Pop(@)]

\* is_ready without the test of the token
NameOnlyReady(form) == Trim(form.name) # <<>>

\* AccountForm::is_ready
is_ready(form) == Trim(form.name) # <<>> /\ Trim(form.api_token) # <<>>

\* AccountForm::build_account
build_account(form) ==
    IF ~is_ready(form) THEN Err("Name and API token are required")
    ELSE Ok(Account(Trim(form.name), Trim(form.api_token),
                    IF Trim(form.email) = <<>> THEN None ELSE Some(Trim(form.email)),
                    IF Trim(form.account_id) = <<>> THEN None
                    ELSE Some(Trim(form.account_id)),
                    "Token"))

\* App::start_add_account
start_add_account(a) ==
    [a EXCEPT !.mode = ModeAddingAccount(AccountFormDefault),
              !.last_message = <<"Add a Cloudflare API token for this account">>]

\* ensure_onboarding_prompt without the prompt: Normal stays with no account
LeaveNormal(a) == a

\* ensure_onboarding_prompt opening the form whatever the account list holds
PromptAlways(a) == start_add_account(a)

\* App::ensure_onboarding_prompt
ensure_onboarding_prompt(a) ==
    IF a.accounts = <<>> THEN start_add_account(a) ELSE a

\* save_accounts writing the newest account alone
SaveNewestOnly(a, o) ==
    IF o.save THEN [a EXCEPT !.config_file = <<a.accounts[Len(a.accounts)]>>]
    ELSE [a EXCEPT !.err = Some(SaveFailure)]

\* App::save_accounts with Config::save: the whole list overwrites the file
save_accounts(a, o) ==
    IF o.save THEN [a EXCEPT !.config_file = a.accounts]
    ELSE [a EXCEPT !.err = Some(SaveFailure)]

\* finish_add_account without save_accounts: the file keeps the old list
FinishUnsaved(a, account, o) ==
    LET Named(a2) ==
            IF Failed(a2) THEN a2
            ELSE [a2 EXCEPT !.last_message = <<"Added account", account.name>>]
    IN  Named(refresh_current(
                [a EXCEPT
                    !.accounts = Append(@, account),
                    !.selected_account = SaturatingSub(Len(a.accounts) + 1, 1),
                    !.selected_zone = 0,
                    !.mode = ModeNormal], o))

\* App::finish_add_account
finish_add_account(a, account, o) ==
    LET Named(a2) ==
            IF Failed(a2) THEN a2
            ELSE [a2 EXCEPT !.last_message = <<"Added account", account.name>>]
        Refreshed(a1) == IF Failed(a1) THEN a1 ELSE Named(refresh_current(a1, o))
    IN  Refreshed(save_accounts(
                    [a EXCEPT
                        !.accounts = Append(@, account),
                        !.selected_account = SaturatingSub(Len(a.accounts) + 1, 1),
                        !.selected_zone = 0,
                        !.mode = ModeNormal], o))

(***************************************************************************)
(* Record form and delete confirmation.                                    *)
(***************************************************************************)
\* RecordDraft::default
RecordDraftDefault ==
    [name |-> <<>>, record_type |-> <<"A">>, content |-> <<>>,
     ttl |-> <<"3", "0", "0">>, proxied |-> TRUE]

\* RecordDraft::from_record
from_record(record) ==
    [name |-> record.name, record_type |-> record.record_type,
     content |-> record.content, ttl |-> NumToString(record.ttl),
     proxied |-> record.proxied]

\* to_record without the test of the name and the type
ToRecordAnyName(draft, id) ==
    LET ttl == ParseU32(Trim(draft.ttl))
    IN  IF ttl = None THEN Err("TTL must be a number")
        ELSE Ok(DnsRecord(id, Trim(draft.name), Trim(draft.record_type),
                          Trim(draft.content), Unwrap(ttl), draft.proxied))

\* RecordDraft::to_record
to_record(draft, id) ==
    LET ttl == ParseU32(Trim(draft.ttl))
    IN  IF ttl = None THEN Err("TTL must be a number")
        ELSE IF Trim(draft.name) = <<>> \/ Trim(draft.record_type) = <<>>
        THEN Err("Name and type are required")
        ELSE Ok(DnsRecord(id, Trim(draft.name), Trim(draft.record_type),
                          Trim(draft.content), Unwrap(ttl), draft.proxied))

\* App::start_record_form
start_record_form(a, is_edit) ==
    LET rec == current_record(a)
        draft == IF is_edit /\ rec # None THEN from_record(Unwrap(rec))
                 ELSE RecordDraftDefault
        target_id == IF rec = None THEN None ELSE Some(Unwrap(rec).id)
    IN  [a EXCEPT
            !.mode = ModeRecordForm([draft |-> draft, field_index |-> 0,
                                     is_edit |-> is_edit, target_id |-> target_id]),
            !.last_message = IF is_edit THEN <<"Editing DNS record">>
                             ELSE <<"Create DNS record">>]

\* App::ask_delete_record taking the record at selected_record of the whole
\* record list
AskDeleteUnfiltered(a) ==
    IF a.selected_record >= Len(a.records) THEN a
    ELSE [a EXCEPT
            !.mode = ModeConfirmDelete(a.records[a.selected_record + 1].id,
                                       a.records[a.selected_record + 1].name),
            !.last_message = <<"Delete", a.records[a.selected_record + 1].name, "?">>]

\* App::ask_delete_record
ask_delete_record(a) ==
    LET rec == current_record(a)
    IN  IF rec = None THEN a
        ELSE [a EXCEPT
                !.mode = ModeConfirmDelete(Unwrap(rec).id, Unwrap(rec).name),
                !.last_message = <<"Delete", Unwrap(rec).name, "?">>]

\* App::create_record
create_record(a, record, o) ==
    LET account == current_account(a)
        zone == current_zone(a)
        Refresh(a1, created) ==
            IF Failed(a1) THEN a1
            ELSE refresh_records(
                    [a1 EXCEPT !.last_message = <<"Created", created.val.name>>,
                               !.mode = ModeNormal], o)
        Send(r) ==
            Refresh(Called(a, r, "create_record", Unwrap(account), Unwrap(zone), record),
                    r.res)
    IN  IF account = None \/ zone = None THEN a
        ELSE Send(backend_create_record(a.backend, Unwrap(account), Unwrap(zone),
                                        record, o))

\* update_record dispatching a create instead of an update
CreateInstead(a, record, o) == create_record(a, record, o)

\* App::update_record
update_record(a, record, o) ==
    LET account == current_account(a)
        zone == current_zone(a)
        Refresh(a1, updated) ==
            IF Failed(a1) THEN a1
            ELSE refresh_records(
                    [a1 EXCEPT !.last_message = <<"Updated", updated.val.name>>,
                               !.mode = ModeNormal], o)
        Send(r) ==
            Refresh(Called(a, r, "update_record", Unwrap(account), Unwrap(zone), record),
                    r.res)
    IN  IF account = None \/ zone = None THEN a
        ELSE Send(backend_update_record(a.backend, Unwrap(account), Unwrap(zone),
                                        record, o))

\* delete_record without the call to the adapter: only the refresh
RefreshOnly(a, record_id, o) == refresh_records(a, o)

\* App::delete_record
delete_record(a, record_id, o) ==
    LET account == current_account(a)
        zone == current_zone(a)
        Refresh(a1) ==
            IF Failed(a1) THEN a1
            ELSE refresh_records([a1 EXCEPT !.last_message = <<"Record deleted">>], o)
        Send(r) ==
            Refresh(Called(a, r, "delete_record", Unwrap(account), Unwrap(zone),
                           record_id))
    IN  IF account = None \/ zone = None THEN a
        ELSE Send(backend_delete_record(a.backend, Unwrap(account), Unwrap(zone),
                                        record_id, o))

(***************************************************************************)
(* Key handlers.  A key is a KeyCode; each handler returns the App after   *)
(* the key and whether the key asks to quit (Ok(true)).                    *)
(***************************************************************************)
Key(code) == [code |-> code]

Char(c) == [code |-> "Char", ch |-> c]

Handled(a, quit) == [app |-> a, quit |-> quit]

\* Focus after BackTab
FocusBack(f) ==
    CASE f = "Accounts" -> "Records"
      [] f = "Zones" -> "Accounts"
      [] OTHER -> "Zones"

\* Focus after Tab
FocusForward(f) ==
    CASE f = "Accounts" -> "Zones"
      [] f = "Zones" -> "Records"
      [] OTHER -> "Accounts"

\* handle_normal_key
handle_normal_key(a, k, o) ==
    CASE k = Char("q") -> Handled(a, TRUE)
      [] k = Char("r") -> Handled(refresh_current(a, o), FALSE)
      [] k = Char("a") -> Handled(start_add_account(a), FALSE)
      [] k = Char("/") -> Handled([a EXCEPT !.mode = ModeSearching(a.record_filter)], FALSE)
      [] k = Char("n") -> Handled(start_record_form(a, FALSE), FALSE)
      [] k = Char("e") -> Handled(start_record_form(a, TRUE), FALSE)
      [] k = Char("d") -> Handled(ask_delete_record(a), FALSE)
      [] k = Key("BackTab") -> Handled([a EXCEPT !.focus = FocusBack(@)], FALSE)
      [] k = Key("Tab") -> Handled([a EXCEPT !.focus = FocusForward(@)], FALSE)
      [] k = Key("Up") ->
            Handled(CASE a.focus = "Accounts" -> previous_account(a, o)
                      [] a.focus = "Zones" -> previous_zone(a, o)
                      [] OTHER -> previous_record(a), FALSE)
      [] k = Key("Down") ->
            Handled(CASE a.focus = "Accounts" -> next_account(a, o)
                      [] a.focus = "Zones" -> next_zone(a, o)
                      [] OTHER -> next_record(a), FALSE)
      [] k = Key("PageDown") -> Handled(next_page(a), FALSE)
      [] k = Key("PageUp") -> Handled(previous_page(a), FALSE)
      [] OTHER -> Handled(a, FALSE)

\* handle_add_account_key
handle_add_account_key(a, k, o) ==
    LET form == a.mode.form
        built == build_account(form)
        with(f) == [a EXCEPT !.mode = ModeAddingAccount(f)]
    IN  CASE k = Key("Esc") ->
                Handled(ensure_onboarding_prompt([a EXCEPT !.mode = ModeNormal]), FALSE)
          [] k = Key("Enter") ->
                IF form.field_index < 2 THEN Handled(with(next_field(form)), FALSE)
                ELSE IF built.ok THEN Handled(finish_add_account(a, built.val, o), FALSE)
                ELSE Handled([a EXCEPT !.last_message = <<built.msg>>], FALSE)
          [] k \in {Key("Tab"), Key("Down")} -> Handled(with(next_field(form)), FALSE)
          [] k \in {Key("BackTab"), Key("Up")} -> Handled(with(previous_field(form)), FALSE)
          [] k = Key("Backspace") -> Handled(with(backspace(form)), FALSE)
          [] k.code = "Char" -> Handled(with(insert_char(form, k.ch)), FALSE)
          [] OTHER -> Handled(a, FALSE)

\* the draft field the record form's cursor is on (none on the proxied toggle)
DraftField(field_index) ==
    CASE field_index = 0 -> "name"
      [] field_index = 1 -> "record_type"
      [] field_index = 2 -> "content"
      [] field_index = 3 -> "ttl"
      [] OTHER -> None

\* handle_record_form_key
handle_record_form_key(a, k, o) ==
    LET form == a.mode.form
        field == DraftField(form.field_index)
        with(f) == [a EXCEPT !.mode = ModeRecordForm(f)]
        record_id == IF form.target_id = None THEN <<"n", "e", "w">>
                     ELSE Unwrap(form.target_id)
        made == to_record(form.draft, record_id)
    IN  CASE k = Key("Esc") -> Handled([a EXCEPT !.mode = ModeNormal], FALSE)
          [] k \in {Key("Tab"), Key("Down")} ->
                Handled(with([form EXCEPT !.field_index = Min(@ + 1, 4)]), FALSE)
          [] k \in {Key("BackTab"), Key("Up")} ->
                Handled(with([form EXCEPT !.field_index = IF @ > 0 THEN @ - 1 ELSE @]), FALSE)
          [] k = Char(" ") /\ form.field_index = 4 ->
                Handled(with([form EXCEPT !.draft.proxied = ~@]), FALSE)
          [] k = Key("Enter") ->
                IF form.field_index < 4
                THEN Handled(with([form EXCEPT !.field_index = @ + 1]), FALSE)
                ELSE IF ~made.ok
                THEN Handled([a EXCEPT !.last_message = <<made.msg>>], FALSE)
                ELSE IF form.is_edit THEN Handled(update_record(a, made.val, o), FALSE)
                ELSE Handled(create_record(a, made.val, o), FALSE)
          [] k = Key("Backspace") ->
                IF field = None THEN Handled(a, FALSE)
                ELSE Handled(with([form EXCEPT !.draft[field] = Pop(@)]), FALSE)
          [] k.code = "Char" /\ ~(k = Char(" ") /\ form.field_index = 4) ->
                IF field = None THEN Handled(a, FALSE)
                ELSE Handled(with([form EXCEPT !.draft[field] = Append(@, k.ch)]), FALSE)
          [] OTHER -> Handled(a, FALSE)

\* handle_confirm_delete_key
handle_confirm_delete_key(a, k, o) ==
    LET Close(a1) == IF Failed(a1) THEN a1 ELSE [a1 EXCEPT !.mode = ModeNormal]
    IN  CASE k = Key("Esc") -> Handled([a EXCEPT !.mode = ModeNormal], FALSE)
          [] k = Char("q") -> Handled(a, TRUE)
          [] k = Key("Enter") ->
                Handled(Close(delete_record(a, a.mode.record_id, o)), FALSE)
          [] OTHER -> Handled(a, FALSE)

\* handle_search_key resetting selection and page only when Enter changes
\* the filter
ResetOnlyWhenChanged(a, k, o) ==
    LET current == a.mode.text
    IN  CASE k = Key("Esc") -> Handled([a EXCEPT !.mode = ModeNormal], FALSE)
          [] k = Key("Enter") ->
                IF current = a.record_filter
                THEN Handled([a EXCEPT !.mode = ModeNormal], FALSE)
                ELSE Handled([a EXCEPT !.record_filter = current, !.record_page = 0,
                                       !.selected_record = 0, !.mode = ModeNormal], FALSE)
          [] k = Key("Backspace") -> Handled([a EXCEPT !.mode = ModeSearching(Pop(current))], FALSE)
          [] k.code = "Char" ->
                Handled([a EXCEPT !.mode = ModeSearching(Append(current, k.ch))], FALSE)
          [] OTHER -> Handled(a, FALSE)

\* handle_search_key whose Enter keeps the matching records only
CommitFilteredList(a, k, o) ==
    LET current == a.mode.text
        Narrowed(a1) == [a1 EXCEPT !.records = filtered_records(a1)]
    IN  CASE k = Key("Esc") -> Handled([a EXCEPT !.mode = ModeNormal], FALSE)
          [] k = Key("Enter") ->
                Handled(Narrowed([a EXCEPT !.record_filter = current, !.record_page = 0,
                                           !.selected_record = 0, !.mode = ModeNormal]),
                        FALSE)
          [] k = Key("Backspace") -> Handled([a EXCEPT !.mode = ModeSearching(Pop(current))], FALSE)
          [] k.code = "Char" ->
                Handled([a EXCEPT !.mode = ModeSearching(Append(current, k.ch))], FALSE)
          [] OTHER -> Handled(a, FALSE)

\* handle_search_key narrowing the view on every typed character
SearchAsYouType(a, k, o) ==
    LET current == a.mode.text
    IN  CASE k = Key("Esc") -> Handled([a EXCEPT !.mode = ModeNormal], FALSE)
          [] k = Key("Enter") ->
                Handled([a EXCEPT !.record_filter = current, !.record_page = 0,
                                  !.selected_record = 0, !.mode = ModeNormal], FALSE)
          [] k = Key("Backspace") -> Handled([a EXCEPT !.mode = ModeSearching(Pop(current))], FALSE)
          [] k.code = "Char" ->
                Handled([a EXCEPT !.record_filter = Append(current, k.ch),
                                  !.mode = ModeSearching(Append(current, k.ch))], FALSE)
          [] OTHER -> Handled(a, FALSE)

\* handle_search_key
handle_search_key(a, k, o) ==
    LET current == a.mode.text
    IN  CASE k = Key("Esc") -> Handled([a EXCEPT !.mode = ModeNormal], FALSE)
          [] k = Key("Enter") ->
                Handled([a EXCEPT !.record_filter = current, !.record_page = 0,
                                  !.selected_record = 0, !.mode = ModeNormal], FALSE)
          [] k = Key("Backspace") -> Handled([a EXCEPT !.mode = ModeSearching(Pop(current))], FALSE)
          [] k.code = "Char" ->
                Handled([a EXCEPT !.mode = ModeSearching(Append(current, k.ch))], FALSE)
          [] OTHER -> Handled(a, FALSE)

\* handle_key
handle_key(a, k, o) ==
    CASE a.mode.tag = "Normal" -> handle_normal_key(a, k, o)
      [] a.mode.tag = "AddingAccount" -> handle_add_account_key(a, k, o)
      [] a.mode.tag = "RecordForm" -> handle_record_form_key(a, k, o)
      [] a.mode.tag = "ConfirmDelete" -> handle_confirm_delete_key(a, k, o)
      [] OTHER -> handle_search_key(a, k, o)

(***************************************************************************)
(* State.                                                                  *)
(***************************************************************************)
VARIABLES
    accounts,           \* App.accounts
    selected_account,   \* App.selected_account
    zones,              \* App.zones
    selected_zone,      \* App.selected_zone
    selected_record,    \* App.selected_record
    records,            \* App.records
    focus,              \* App.focus
    mode,               \* App.mode
    record_filter,      \* App.record_filter
    record_page,        \* App.record_page
    record_page_size,   \* App.record_page_size
    last_message,       \* App.last_message
    backend,            \* App.backend
    config_file,        \* the accounts in the file at App.config_path
    calls,              \* the backend calls the last handler issued, in order
    exit,               \* run_app: "running", or how the loop returned
    typed,              \* editing keys the open modal has taken
    writes,             \* create, update and delete calls dispatched so far
    wire                \* the last exchange of the network adapter on the wire

vars == <<accounts, selected_account, zones, selected_zone, selected_record, records,
          focus, mode, record_filter, record_page, record_page_size, last_message,
          backend, config_file, calls, exit, typed, writes, wire>>

\* the App as a handler finds it
Self ==
    [accounts |-> accounts, selected_account |-> selected_account, zones |-> zones,
     selected_zone |-> selected_zone, selected_record |-> selected_record,
     records |-> records, focus |-> focus, mode |-> mode,
     record_filter |-> record_filter, record_page |-> record_page,
     record_page_size |-> record_page_size, last_message |-> last_message,
     backend |-> backend, config_file |-> config_file, calls |-> <<>>, err |-> None]

\* no exchange was made yet
NoExchange == [op |-> "none"]

\* the App as a handler leaves it; a handler's calls are answered by `o`
Becomes(a) ==
    /\ accounts' = a.accounts
    /\ selected_account' = a.selected_account
    /\ zones' = a.zones
    /\ selected_zone' = a.selected_zone
    /\ selected_record' = a.selected_record
    /\ records' = a.records
    /\ focus' = a.focus
    /\ mode' = a.mode
    /\ record_filter' = a.record_filter
    /\ record_page' = a.record_page
    /\ record_page_size' = a.record_page_size
    /\ last_message' = a.last_message
    /\ backend' = a.backend
    /\ config_file' = a.config_file
    /\ calls' = a.calls
    /\ wire' = wire

\* the App a handler leaves is the current one
Is(a) ==
    /\ accounts = a.accounts
    /\ selected_account = a.selected_account
    /\ zones = a.zones
    /\ selected_zone = a.selected_zone
    /\ selected_record = a.selected_record
    /\ records = a.records
    /\ focus = a.focus
    /\ mode = a.mode
    /\ record_filter = a.record_filter
    /\ record_page = a.record_page
    /\ record_page_size = a.record_page_size
    /\ last_message = a.last_message
    /\ backend = a.backend
    /\ config_file = a.config_file
    /\ calls = a.calls

\* App::new, over the accounts of the loaded config and the chosen adapter
new(config_accounts, b, o) ==
    LET Prompt(a1) ==
            IF Failed(a1) \/ a1.accounts # <<>> THEN a1
            ELSE [a1 EXCEPT
                    !.mode = ModeAddingAccount(AccountFormDefault),
                    !.last_message =
                        <<"Add your first Cloudflare account (name + API token).">>]
    IN  Prompt(refresh_current(
                [accounts |-> config_accounts, selected_account |-> 0, zones |-> <<>>,
                 selected_zone |-> 0, selected_record |-> 0, records |-> <<>>,
                 focus |-> "Accounts", mode |-> ModeNormal, record_filter |-> <<>>,
                 record_page |-> 0, record_page_size |-> 10, last_message |-> <<>>,
                 backend |-> b, config_file |-> config_accounts, calls |-> <<>>,
                 err |-> None], o))

\* an account a config file holds
AccDemo == Account(<<"D", " ", "x">>, <<"t">>, Some(<<"e">>), None, "GlobalKey")

\* run_app is entered with the App that App::new returned
Enters(a) ==
    /\ ~Failed(a)
    /\ Is(a)
    /\ exit = "running"
    /\ typed = 0
    /\ writes = 0
    /\ wire = NoExchange

\* main up to run_app: the config is loaded, the adapter chosen, App::new has
\* returned Ok and the loop is about to start
Started(config_accounts, b) ==
    \E o \in Answers(b, {"zones", "records"}) : Enters(new(config_accounts, b, o))

\* CF_TUI_OFFLINE unset, a config file with one account: the network adapter
Init == Started(<<AccDemo>>, CfNew)

\* CF_TUI_OFFLINE unset and no config file yet: the first run
InitFirstRun == Started(<<>>, CfNew)

\* CF_TUI_OFFLINE set, a config file with one account: the deterministic adapter
InitOffline == Started(<<AccDemo>>, MockBackendNew)

(***************************************************************************)
(* Inputs.                                                                 *)
(***************************************************************************)
\* characters typed into the add-account form, the record form and the
\* search overlay
AccountChars == {"q"}

RecordChars == {"q"}

SearchChars == {"q", " "}

NormalKeys ==
    {Char("q"), Char("r"), Char("a"), Char("/"), Char("n"), Char("e"), Char("d"),
     Key("BackTab"), Key("Tab"), Key("Up"), Key("Down"), Key("PageDown"),
     Key("PageUp"), Key("F1")}

FormKeys ==
    {Key("Esc"), Key("Enter"), Key("Tab"), Key("Down"), Key("BackTab"), Key("Up"),
     Key("Backspace"), Key("F1")}

AccountFormKeys == FormKeys \cup {Char(c) : c \in AccountChars}

RecordFormKeys == FormKeys \cup {Char(c) : c \in RecordChars}

ConfirmDeleteKeys == {Key("Esc"), Key("Enter"), Char("q"), Char("y"), Key("F1")}

SearchKeys ==
    {Key("Esc"), Key("Enter"), Key("Backspace"), Key("F1")}
        \cup {Char(c) : c \in SearchChars}

\* the heights draw passes to update_record_page_size
AreaHeights == {4, 5}

\* a key that edits the text of the open modal
IsEditingKey(k) == k.code = "Char" \/ k = Key("Backspace")

\* the open modal is a form, whose editing keys the model counts
TakesText == mode.tag \in {"AddingAccount", "RecordForm"}

\* the handler of key k would dispatch a create, update or delete
IsWriteKey(k) ==
    /\ k = Key("Enter")
    /\ \/ mode.tag = "ConfirmDelete"
       \/ mode.tag = "RecordForm" /\ mode.form.field_index = 4

\* the create, update and delete calls among cs
WriteCalls(cs) ==
    SelectSeq(cs, LAMBDA c : c.op \in {"create_record", "update_record", "delete_record"})

\* the answers the handler of key k can consult in the current mode
Needs(k) ==
    CASE mode.tag = "Normal" /\ k = Char("r") -> {"zones", "records"}
      [] mode.tag = "Normal" /\ k \in {Key("Up"), Key("Down")} /\ focus = "Accounts" ->
            {"zones", "records"}
      [] mode.tag = "Normal" /\ k \in {Key("Up"), Key("Down")} /\ focus = "Zones" ->
            {"records"}
      [] mode.tag = "AddingAccount" /\ k = Key("Enter") -> {"save", "zones", "records"}
      [] mode.tag \in {"RecordForm", "ConfirmDelete"} /\ k = Key("Enter") ->
            {"write", "records"}
      [] OTHER -> {}

(***************************************************************************)
(* run_app: one iteration takes one key, or draws.                         *)
(***************************************************************************)
\* handle_key(key.code, app)? in the loop: h is what the handler of key k
\* returned; Err and Ok(true) both return from the loop
Returns(h, k) ==
    /\ exit = "running"
    /\ Becomes(h.app)
    /\ exit' = IF Failed(h.app) THEN "error"
               ELSE IF h.quit THEN "quit" ELSE "running"
    /\ typed' = IF h.app.mode.tag # mode.tag \/ k = Key("Esc") THEN 0
                ELSE IF IsEditingKey(k) /\ TakesText THEN typed + 1
                ELSE typed
    /\ writes' = IF backend.kind = "Mock" THEN writes + Len(WriteCalls(h.app.calls))
                 ELSE writes

\* one iteration of the loop on key k
Loop(k, o) == Returns(handle_key(Self, k, o), k)

\* one key from the set keys, within the bounds given
Press(keys, max_typed, max_writes) ==
    \E k \in keys :
        \E o \in Answers(backend, Needs(k)) :
            /\ IsEditingKey(k) /\ mode.tag \in {"AddingAccount", "RecordForm"} =>
                    typed < max_typed
            /\ k.code = "Char" /\ mode.tag = "Searching" => Len(mode.text) < MaxSearchLen
            /\ IsWriteKey(k) /\ backend.kind = "Mock" => writes < max_writes
            /\ mode.tag = "Normal" /\ k = Char("a") => Len(accounts) < MaxAccounts
            /\ mode.tag = "Normal" /\ k = Char("n") => Len(records) < MaxRecords
            /\ Loop(k, o)

NormalKey == mode.tag = "Normal" /\ Press(NormalKeys, 0, MaxWrites)

AddAccountKey ==
    mode.tag = "AddingAccount" /\ Press(AccountFormKeys, MaxTypedAccount, MaxWrites)

RecordFormKey ==
    mode.tag = "RecordForm" /\ Press(RecordFormKeys, MaxTypedRecord, MaxWrites)

ConfirmDeleteKey ==
    mode.tag = "ConfirmDelete" /\ Press(ConfirmDeleteKeys, 0, MaxWrites)

SearchKey == mode.tag = "Searching" /\ Press(SearchKeys, 0, MaxWrites)

\* terminal.draw: draw_zones_and_records updates the page size
Draw ==
    \E h \in AreaHeights :
        /\ exit = "running"
        /\ Becomes([update_record_page_size(Self, h) EXCEPT !.calls = calls])
        /\ UNCHANGED <<exit, typed, writes>>

Next ==
    \/ NormalKey
    \/ AddAccountKey
    \/ RecordFormKey
    \/ ConfirmDeleteKey
    \/ SearchKey
    \/ Draw

Spec == Init /\ [][Next]_vars

(***************************************************************************)
(* The first run: no account yet, so the session opens on the add-account  *)
(* form; the keys are those that fill the form, commit or cancel it, open  *)
(* it again and move between the accounts added.                           *)
(***************************************************************************)
FirstRunFormKeys == FormKeys \cup {Char("q"), Char(" ")}

FirstRunNormalKeys == {Char("a"), Char("q"), Char("r"), Key("Up"), Key("Down")}

FirstRunAddAccountKey ==
    mode.tag = "AddingAccount" /\ Press(FirstRunFormKeys, MaxTypedFirstRun, MaxWrites)

FirstRunNormalKey == mode.tag = "Normal" /\ Press(FirstRunNormalKeys, 0, MaxWrites)

NextFirstRun ==
    \/ FirstRunAddAccountKey
    \/ FirstRunNormalKey

SpecFirstRun == InitFirstRun /\ [][NextFirstRun]_vars

(***************************************************************************)
(* The session on the deterministic adapter, with the keys that create,    *)
(* edit and delete the selected record.                                    *)
(***************************************************************************)
OfflineNormalKeys == {Char("n"), Char("e"), Char("d")}

OfflineFormKeys == {Key("Enter"), Char("q")}

OfflineConfirmKeys == {Key("Enter")}

OfflineNormalKey == mode.tag = "Normal" /\ Press(OfflineNormalKeys, 0, MaxWrites)

OfflineRecordFormKey ==
    mode.tag = "RecordForm" /\ Press(OfflineFormKeys, MaxTypedRecord, MaxWrites)

OfflineConfirmDeleteKey ==
    mode.tag = "ConfirmDelete" /\ Press(OfflineConfirmKeys, 0, MaxWrites)

NextOffline ==
    \/ OfflineNormalKey
    \/ OfflineRecordFormKey
    \/ OfflineConfirmDeleteKey

SpecOffline == InitOffline /\ [][NextOffline]_vars

(***************************************************************************)
(* The session on the deterministic adapter with the focus on the zone     *)
(* list: the user moves between the two zones and creates, edits and       *)
(* deletes records in each.                                                *)
(***************************************************************************)
OfflineZoneKeys == {Key("Up"), Key("Down"), Char("n"), Char("e"), Char("d")}

\* App::new has returned on the deterministic adapter and Tab has moved the
\* focus to the zone list
InitOfflineZones ==
    \E o \in Answers(MockBackendNew, {"zones", "records"}) :
        Enters([new(<<AccDemo>>, MockBackendNew, o) EXCEPT !.focus = "Zones"])

OfflineZoneKey == mode.tag = "Normal" /\ Press(OfflineZoneKeys, 0, MaxWrites)

NextOfflineZones ==
    \/ OfflineZoneKey
    \/ OfflineRecordFormKey
    \/ OfflineConfirmDeleteKey

SpecOfflineZones == InitOfflineZones /\ [][NextOfflineZones]_vars

(***************************************************************************)
(* The session that edits drafts: the record form is opened on the         *)
(* selected record or on an empty draft, text, digits and blanks are typed *)
(* into its fields and the draft is submitted.                             *)
(***************************************************************************)
DraftChars == {"q", "9", " "}

DraftNormalKeys == {Char("n"), Char("e"), Key("Tab"), Key("Down")}

DraftFormKeys ==
    {Key("Esc"), Key("Enter"), Key("Tab"), Key("BackTab"), Key("Backspace")}
        \cup {Char(c) : c \in DraftChars}

DraftNormalKey == mode.tag = "Normal" /\ Press(DraftNormalKeys, 0, MaxWrites)

DraftFormKey == mode.tag = "RecordForm" /\ Press(DraftFormKeys, MaxTypedDraft, MaxWrites)

NextRecordForm ==
    \/ DraftNormalKey
    \/ DraftFormKey

SpecRecordForm == Init /\ [][NextRecordForm]_vars

(***************************************************************************)
(* The session that pages: the server has returned between no record and  *)
(* MaxPagingRecords records for the first zone, the focus is on the record *)
(* list, and a filter may be active; the keys turn the page and move the   *)
(* selection, and each draw may find another height for the list.          *)
(***************************************************************************)
\* the i-th record the server returns; one in three does not match "q"
PagingRecord(i) ==
    DnsRecord(<<"r">> \o NumToString(i), IF i % 3 = 0 THEN <<"m">> ELSE <<"q">>,
              <<"A">>, <<"1">>, 300, FALSE)

\* the answers of the server at startup: two zones, and n records
PagingAnswers(n) ==
    [zones |-> Ok(<<CfZ1, CfZ2>>), records |-> Ok([i \in 1..n |-> PagingRecord(i)]),
     write |-> TRUE, save |-> TRUE]

PagingFilters == { <<>>, <<"q">> }

\* App::new has returned, Tab has moved the focus to the record list and a
\* search has committed the filter
InitPaging ==
    \E n \in 0..MaxPagingRecords :
        \E f \in PagingFilters :
            Enters([new(<<AccDemo>>, CfNew, PagingAnswers(n)) EXCEPT
                        !.focus = "Records", !.record_filter = f])

PagingKeys == {Key("PageDown"), Key("PageUp"), Key("Down"), Key("Up")}

\* the heights draw passes to update_record_page_size: page sizes 1..MaxPageSize
PagingHeights == 4..(MaxPageSize + 3)

PagingKey == mode.tag = "Normal" /\ Press(PagingKeys, 0, MaxWrites)

DrawPaging ==
    \E h \in PagingHeights :
        /\ exit = "running"
        /\ Becomes([update_record_page_size(Self, h) EXCEPT !.calls = calls])
        /\ UNCHANGED <<exit, typed, writes>>

NextPaging ==
    \/ PagingKey
    \/ DrawPaging

SpecPaging == InitPaging /\ [][NextPaging]_vars

(***************************************************************************)
(* The session that filters: the record list of the first zone is shown   *)
(* with the focus on it; the search overlay is opened, text in both cases  *)
(* and blanks are typed, the filter is committed or the overlay cancelled, *)
(* the view is walked by record and by page between draws, and the        *)
(* deletion of the selected record is requested, confirmed or cancelled.   *)
(***************************************************************************)
ViewChars == {"q", "Q", "x", " "}

ViewNormalKeys ==
    {Char("/"), Char("d"), Key("Down"), Key("Up"), Key("PageDown"), Key("PageUp")}

ViewConfirmKeys == {Key("Esc"), Key("Enter")}

ViewSearchKeys ==
    {Key("Esc"), Key("Enter"), Key("Backspace")} \cup {Char(c) : c \in ViewChars}

\* the answers of the server at startup: two zones, and the records r
ViewAnswers(r) ==
    [zones |-> Ok(<<CfZ1, CfZ2>>), records |-> Ok(r), write |-> TRUE, save |-> TRUE]

\* App::new has returned and Tab has moved the focus to the record list
InitView ==
    \E r \in CfRecordLists :
        Enters([new(<<AccDemo>>, CfNew, ViewAnswers(r)) EXCEPT !.focus = "Records"])

ViewNormalKey == mode.tag = "Normal" /\ Press(ViewNormalKeys, 0, MaxWrites)

ViewSearchKey ==
    /\ mode.tag = "Searching"
    /\ \E k \in ViewSearchKeys :
            \E o \in Answers(backend, Needs(k)) :
                /\ k.code = "Char" => Len(mode.text) < MaxFilterLen
                /\ Loop(k, o)

ViewConfirmDeleteKey ==
    mode.tag = "ConfirmDelete" /\ Press(ViewConfirmKeys, 0, MaxWrites)

NextView ==
    \/ ViewNormalKey
    \/ ViewSearchKey
    \/ ViewConfirmDeleteKey
    \/ Draw

SpecView == InitView /\ [][NextView]_vars

(***************************************************************************)
(* The session that walks the zones: the server has returned three zones   *)
(* for the account, the focus is on the zone list; the keys step through   *)
(* the zones, move the focus and, on the record list, move the selection   *)
(* and the page.                                                           *)
(***************************************************************************)
CfZ3 == Zone(<<"z", "3">>, <<"t", "r", "i">>)

ZoneKeys == {Key("Up"), Key("Down"), Key("Tab"), Key("BackTab"), Key("PageDown")}

\* App::new has returned with three zones and Tab has moved the focus to the
\* zone list
InitZones ==
    \E r \in CfRecordLists :
        Enters([new(<<AccDemo>>, CfNew,
                    [zones |-> Ok(<<CfZ1, CfZ2, CfZ3>>), records |-> Ok(r),
                     write |-> TRUE, save |-> TRUE])
                EXCEPT !.focus = "Zones"])

ZoneKey == mode.tag = "Normal" /\ Press(ZoneKeys, 0, MaxWrites)

NextZones ==
    \/ ZoneKey
    \/ Draw

SpecZones == InitZones /\ [][NextZones]_vars

(***************************************************************************)
(* The network adapter on the wire: the session has started; an operation  *)
(* of the adapter is called for an account, the server answers with a      *)
(* status and a body, and the call returns.  The adapter keeps nothing     *)
(* from one call to the next, so one call is followed.                     *)
(***************************************************************************)
Statuses == {200, 403, 500}

\* the responses a server sends
Responses ==
    [status : Statuses, text : {Serialize(e) : e \in Envelopes} \cup PageTexts]

\* accounts of both authentication modes, with and without an email
NetAccounts ==
    << Account(<<"D">>, <<"t">>, None, None, "Token"),
       Account(<<"D">>, <<"t">>, Some(<<"e">>), None, "Token"),
       Account(<<"D">>, <<"t">>, None, None, "GlobalKey"),
       Account(<<"D">>, <<"t">>, Some(<<"e">>), None, "GlobalKey") >>

\* App::new has returned, with no zone to show
InitNetwork ==
    Enters(new(<<AccDemo>>, CfNew,
               [zones |-> Ok(<<>>), records |-> Ok(<<>>), write |-> TRUE, save |-> TRUE]))

\* the adapter has sent the request of operation op for account, received
\* response, and the call has ended with outcome
Exchanged(op, account, response, outcome) ==
    /\ exit = "running"
    /\ wire = NoExchange
    /\ wire' = [op |-> op, account |-> account, headers |-> with_auth(account),
                response |-> response, outcome |-> outcome]
    /\ UNCHANGED <<accounts, selected_account, zones, selected_zone, selected_record,
                   records, focus, mode, record_filter, record_page, record_page_size,
                   last_message, backend, config_file, calls, exit, typed, writes>>

ListZonesCall ==
    \E i \in DOMAIN NetAccounts : \E response \in Responses :
        Exchanged("list_zones", NetAccounts[i], response, CfListZones(response))

ListRecordsCall ==
    \E i \in DOMAIN NetAccounts : \E response \in Responses :
        Exchanged("list_records", NetAccounts[i], response, CfListRecords(response))

CreateRecordCall ==
    \E i \in DOMAIN NetAccounts : \E response \in Responses :
        Exchanged("create_record", NetAccounts[i], response, CfCreateRecord(response))

UpdateRecordCall ==
    \E i \in DOMAIN NetAccounts : \E response \in Responses :
        Exchanged("update_record", NetAccounts[i], response, CfUpdateRecord(response))

DeleteRecordCall ==
    \E i \in DOMAIN NetAccounts : \E response \in Responses :
        Exchanged("delete_record", NetAccounts[i], response, CfDeleteRecord(response))

NextNetwork ==
    \/ ListZonesCall
    \/ ListRecordsCall
    \/ CreateRecordCall
    \/ UpdateRecordCall
    \/ DeleteRecordCall

SpecNetwork == InitNetwork /\ [][NextNetwork]_vars

(***************************************************************************)
(* Properties.                                                             *)
(***************************************************************************)
\* the filtered view of the current state
View == filtered_records(Self)

\* the operations of the calls cs, in order
Ops(cs) == [i \in DOMAIN cs |-> cs[i].op]

\* C1: in every reachable state record_page is below the page count of the
\* filtered view when the view is non-empty, and 0 when it is empty, so that
\* paged_records never slices past the end of the view
PageInRange ==
    /\ IF View = <<>> THEN record_page = 0
       ELSE record_page >= 0 /\ record_page < record_page_count(Self, Len(View))
    /\ paged_records(Self).ok

\* a state of C1: a filter is set, the view has more than one page and the
\* last page is shown
OnLastPageOfFilteredView ==
    /\ Trim(record_filter) # <<>>
    /\ Len(View) < Len(records)
    /\ record_page > 0
    /\ record_page = record_page_count(Self, Len(View)) - 1

\* C2: in every reachable state each selected index is below the length of
\* its list when the list is non-empty (the filtered view, for records), so
\* the current account, zone or record is absent exactly when its list is empty
SelectionsInRange ==
    /\ accounts # <<>> => selected_account < Len(accounts)
    /\ zones # <<>> => selected_zone < Len(zones)
    /\ View # <<>> => selected_record < Len(View)
    /\ (current_account(Self) = None) <=> (accounts = <<>>)
    /\ (current_zone(Self) = None) <=> (zones = <<>>)
    /\ (current_record(Self) = None) <=> (View = <<>>)

\* a state of C2: the last account, the last zone and the last record of a
\* filtered view are the current ones
LastOfEachSelected ==
    /\ Len(accounts) > 1 /\ selected_account = Len(accounts) - 1
    /\ Len(zones) > 1 /\ selected_zone = Len(zones) - 1
    /\ Len(View) > 1 /\ Len(View) < Len(records)
    /\ selected_record = Len(View) - 1

\* the keys the handler of the current mode is offered
ModeKeys ==
    CASE mode.tag = "Normal" -> NormalKeys
      [] mode.tag = "AddingAccount" -> AccountFormKeys
      [] mode.tag = "RecordForm" -> RecordFormKeys
      [] mode.tag = "ConfirmDelete" -> ConfirmDeleteKeys
      [] OTHER -> SearchKeys

\* a call of the handler that left a failed
AnyCallFailed(a) == \E i \in DOMAIN a.calls : ~a.calls[i].ok

\* the lists, the selections and the page of a are those of the current state
Untouched(a) ==
    /\ a.accounts = accounts
    /\ a.zones = zones
    /\ a.records = records
    /\ a.selected_account = selected_account
    /\ a.selected_zone = selected_zone
    /\ a.selected_record = selected_record
    /\ a.record_page = record_page

\* C3: whenever a backend call made by the handler of a key fails, the
\* accounts, zones, records, the three selections and the page are after the
\* handler what they were before it
FailureLeavesStateAlone ==
    exit = "running" =>
        \A k \in ModeKeys :
            \A o \in Answers(backend, Needs(k)) :
                LET a == handle_key(Self, k, o).app
                IN  AnyCallFailed(a) => Untouched(a)

\* C4: a failed backend call never ends the session: the loop is still
\* running after it, and it returns only on a quit key
OnlyQuitEndsSession ==
    /\ AnyCallFailed([calls |-> calls]) => exit = "running"
    /\ exit # "running" => exit = "quit"

\* C5: in every reachable state, an empty account list means the mode is
\* AddingAccount: cancelling the add-account form with no account opens it
\* again, so no other mode is reached before an account is committed
NoAccountMeansAddingAccount ==
    accounts = <<>> => mode.tag = "AddingAccount"

\* a state of C5: Esc has cancelled the first form with no account committed
\* and start_add_account has opened the form again
PromptedAgain ==
    /\ accounts = <<>>
    /\ mode = ModeAddingAccount(AccountFormDefault)
    /\ last_message = <<"Add a Cloudflare API token for this account">>

\* C6: after any sequence of create, update and delete calls on the
\* deterministic adapter, the records it stores for one zone have pairwise
\* distinct ids
MockIdsDistinct ==
    backend.kind = "Mock" =>
        \A z \in DOMAIN backend.records :
            \A i, j \in DOMAIN backend.records[z] :
                i # j => backend.records[z][i].id # backend.records[z][j].id

\* the index next_account moves to from i among n accounts
After(i, n) == (i + 1) % n

\* the index previous_account moves to from i among n accounts
Before(i, n) == (i + n - 1) % n

\* the account step that left a selected index `to`, reset the zone and
\* issued the calls ops, all of them for the account at `to`
SteppedTo(a, to, ops) ==
    /\ a.selected_account = to
    /\ a.selected_zone = 0
    /\ Ops(a.calls) = ops
    /\ \A i \in DOMAIN a.calls : a.calls[i].account = accounts[to + 1]

\* what list-zones answers for the account at index `to`
ZonesOf(to, o) == list_zones(backend, accounts[to + 1], o).res

\* the calls of a cascading refresh under the answers o: list-records
\* follows list-zones when list-zones returned at least one zone
RefreshOps(to, o) ==
    IF ZonesOf(to, o).ok /\ ZonesOf(to, o).val # <<>>
    THEN <<"list_zones", "list_records">>
    ELSE <<"list_zones">>

\* C7 as stated: every next-account and previous-account action moves
\* selected_account by one modulo the number of accounts, resets
\* selected_zone to 0 and issues exactly one list-zones call followed by
\* exactly one list-records call
AccountStepRefreshesBoth ==
    exit = "running" /\ accounts # <<>> =>
        \A o \in Answers(backend, {"zones", "records"}) :
            /\ SteppedTo(next_account(Self, o),
                         After(selected_account, Len(accounts)),
                         <<"list_zones", "list_records">>)
            /\ SteppedTo(previous_account(Self, o),
                         Before(selected_account, Len(accounts)),
                         <<"list_zones", "list_records">>)

\* C7, amended: every next-account and previous-account action moves
\* selected_account by one modulo the number of accounts, resets
\* selected_zone to 0 and issues exactly one list-zones call for the new
\* account; exactly one list-records call follows it when list-zones returned
\* at least one zone, and none when it failed or returned no zone
AccountStepRefreshes ==
    exit = "running" /\ accounts # <<>> =>
        \A o \in Answers(backend, {"zones", "records"}) :
            /\ SteppedTo(next_account(Self, o),
                         After(selected_account, Len(accounts)),
                         RefreshOps(After(selected_account, Len(accounts)), o))
            /\ SteppedTo(previous_account(Self, o),
                         Before(selected_account, Len(accounts)),
                         RefreshOps(Before(selected_account, Len(accounts)), o))

\* a state of C7: with two accounts the step has wrapped to the first one
\* and both lists were fetched for it
WrappedToFirstAccount ==
    /\ exit = "running"
    /\ mode = ModeNormal
    /\ focus = "Accounts"
    /\ Len(accounts) = 2
    /\ selected_account = 0
    /\ selected_zone = 0
    /\ Ops(calls) = <<"list_zones", "list_records">>
    /\ calls[1].account = accounts[1]
    /\ calls[2].zone = zones[1]

\* the record the open record form materialises on Enter
Made ==
    to_record(mode.form.draft,
              IF mode.form.target_id = None THEN <<"n", "e", "w">>
              ELSE Unwrap(mode.form.target_id))

\* the call the flow of the open record form dispatches
WriteOp == IF mode.form.is_edit THEN "update_record" ELSE "create_record"

\* the record form is open on its last field with a draft that materialises
AtSubmit ==
    /\ exit = "running"
    /\ mode.tag = "RecordForm"
    /\ mode.form.field_index = 4
    /\ Made.ok

\* what list-records answers for the current account and zone of a
Fresh(a, o) ==
    list_records(a.backend, Unwrap(current_account(a)), Unwrap(current_zone(a)), o).res

\* a holds a selected account and a selected zone
HasTarget(a) == current_account(a) # None /\ current_zone(a) # None

\* Enter left a: one write was dispatched, the mode is Normal and the record
\* list is the result of a list-records call made after the write
Saved(a, o) ==
    /\ HasTarget(a)
    /\ Ops(a.calls) = <<WriteOp, "list_records">>
    /\ a.calls[2].ok
    /\ a.mode = ModeNormal
    /\ a.records = Fresh(a, o).val

\* C8 as stated: in RecordForm on the last field, Enter on a draft that
\* materialises dispatches exactly one create (create flow) or update (edit
\* flow), after which the mode is Normal and the record list has been
\* replaced by a fresh list-records result
SubmitSavesAndRefreshes ==
    AtSubmit =>
        \A o \in Answers(backend, {"write", "records"}) :
            Saved(handle_key(Self, Key("Enter"), o).app, o)

\* Enter left a, by cases: with no zone selected nothing is dispatched and
\* the form stays; otherwise one write carrying the materialised record goes
\* to the selected account and zone, and when it succeeds the mode is Normal
\* and one list-records call follows, whose result, when it succeeds,
\* replaces the record list; when the write fails the form and the list stay
SavedWhenPossible(a, o) ==
    IF ~HasTarget(Self) THEN a = Self
    ELSE /\ a.calls # <<>>
         /\ a.calls[1] = Call(WriteOp, Unwrap(current_account(Self)),
                              Unwrap(current_zone(Self)), Made.val, a.calls[1].ok)
         /\ Len(WriteCalls(a.calls)) = 1
         /\ IF a.calls[1].ok
            THEN /\ Ops(a.calls) = <<WriteOp, "list_records">>
                 /\ a.mode = ModeNormal
                 /\ IF a.calls[2].ok
                    THEN a.records = Fresh(a, o).val /\ ~Failed(a)
                    ELSE a.records = records /\ Failed(a)
            ELSE /\ Ops(a.calls) = <<WriteOp>>
                 /\ a.mode = mode
                 /\ a.records = records
                 /\ Failed(a)

\* C8, amended: in RecordForm on the last field, Enter on a draft that
\* materialises dispatches exactly one create (create flow) or update (edit
\* flow) when an account and a zone are selected, and nothing otherwise (the
\* form stays open); when the dispatched call succeeds the mode is Normal
\* and one list-records call follows, and when that succeeds too its result
\* replaces the record list
SubmitDispatchesOnce ==
    AtSubmit =>
        \A o \in Answers(backend, {"write", "records"}) :
            SavedWhenPossible(handle_key(Self, Key("Enter"), o).app, o)

\* a state of C8: a create was dispatched and the list fetched after it
RecordCreated ==
    /\ exit = "running"
    /\ mode = ModeNormal
    /\ Ops(calls) = <<"create_record", "list_records">>
    /\ calls[1].ok /\ calls[2].ok
    /\ calls[1].arg.name = <<"q">>
    /\ records # <<>>
    /\ last_message = <<Len(records), "record(s) in", zones[selected_zone + 1].name>>

\* the delete confirmation is open
AtConfirm == exit = "running" /\ mode.tag = "ConfirmDelete"

\* 'q' left h: the session ends and nothing was dispatched or changed
QuitWithoutDelete(h) == h.quit /\ h.app = Self

\* Enter left a: one delete carrying the held id went to the selected
\* account and zone, the mode is Normal and the list was fetched again, with
\* selection and page at 0
Deleted(a, o) ==
    /\ HasTarget(Self)
    /\ Ops(a.calls) = <<"delete_record", "list_records">>
    /\ a.calls[1] = Call("delete_record", Unwrap(current_account(Self)),
                         Unwrap(current_zone(Self)), mode.record_id, a.calls[1].ok)
    /\ a.calls[2].ok
    /\ a.mode = ModeNormal
    /\ a.records = Fresh(a, o).val
    /\ a.selected_record = 0
    /\ a.record_page = 0

\* C9 as stated: in ConfirmDelete, Enter dispatches exactly one delete
\* carrying the held record id for the selected account and zone, after
\* which the mode is Normal and the record list has been refreshed from the
\* backend with selection and page at 0; 'q' ends the session without a delete
ConfirmDeletesAndRefreshes ==
    AtConfirm =>
        \A o \in Answers(backend, {"write", "records"}) :
            /\ Deleted(handle_key(Self, Key("Enter"), o).app, o)
            /\ QuitWithoutDelete(handle_key(Self, Char("q"), o))

\* Enter left a, by cases: one delete carrying the held id always goes to
\* the selected account and zone; when it succeeds one list-records call
\* follows, and when that succeeds too the mode is Normal, the list is its
\* result and selection and page are 0; when either fails the confirmation
\* stays open and the list is as before
DeletedWhenPossible(a, o) ==
    /\ HasTarget(Self)
    /\ a.calls # <<>>
    /\ a.calls[1] = Call("delete_record", Unwrap(current_account(Self)),
                         Unwrap(current_zone(Self)), mode.record_id, a.calls[1].ok)
    /\ Len(WriteCalls(a.calls)) = 1
    /\ IF a.calls[1].ok
       THEN /\ Ops(a.calls) = <<"delete_record", "list_records">>
            /\ IF a.calls[2].ok
               THEN /\ ~Failed(a)
                    /\ a.mode = ModeNormal
                    /\ a.records = Fresh(a, o).val
                    /\ a.selected_record = 0
                    /\ a.record_page = 0
               ELSE Failed(a) /\ a.mode = mode /\ a.records = records
       ELSE /\ Ops(a.calls) = <<"delete_record">>
            /\ Failed(a) /\ a.mode = mode /\ a.records = records

\* C9, amended: in ConfirmDelete, Enter dispatches exactly one delete
\* carrying the held record id for the selected account and zone; when the
\* delete and the list-records call that follows it both succeed, the mode
\* is Normal and the record list is the fetched one with selection and page
\* at 0; 'q' ends the session without a delete
ConfirmDeletesOnce ==
    AtConfirm =>
        \A o \in Answers(backend, {"write", "records"}) :
            /\ DeletedWhenPossible(handle_key(Self, Key("Enter"), o).app, o)
            /\ QuitWithoutDelete(handle_key(Self, Char("q"), o))

\* a state of C9: the delete was dispatched and the list fetched after it
RecordDeleted ==
    /\ exit = "running"
    /\ mode = ModeNormal
    /\ Ops(calls) = <<"delete_record", "list_records">>
    /\ calls[1].ok /\ calls[2].ok
    /\ selected_record = 0
    /\ record_page = 0
    /\ last_message = <<Len(records), "record(s) in", zones[selected_zone + 1].name>>

\* every character of t is whitespace
Blank(t) == \A i \in DOMAIN t : IsWhitespace(t[i])

\* t is s without its leading and trailing whitespace
IsTrimOf(t, s) ==
    /\ t # <<>> => ~IsWhitespace(t[1]) /\ ~IsWhitespace(t[Len(t)])
    /\ \E i \in 1..(Len(s) + 1) :
            \E j \in 0..Len(s) :
                /\ t = SubSeq(s, i, j)
                /\ Blank(SubSeq(s, 1, i - 1))
                /\ Blank(SubSeq(s, j + 1, Len(s)))

\* the optional field opt holds the text typed, trimmed, or is absent when
\* the text is blank
IsOptionOf(opt, typedText) ==
    IF Blank(typedText) THEN opt = None
    ELSE opt # None /\ IsTrimOf(Unwrap(opt), typedText)

\* the add-account form is open past its second field and is ready
AtAccountCommit ==
    /\ exit = "running"
    /\ mode.tag = "AddingAccount"
    /\ mode.form.field_index >= 2
    /\ build_account(mode.form).ok

\* the account at the end of the list of a
Last(a) == a.accounts[Len(a.accounts)]

\* the commit that left a succeeded: the account is appended after the
\* existing ones and selected, the list is in the file, zones then records
\* were fetched for it, the mode is Normal and the account holds what was typed
Committed(a, o) ==
    /\ Len(a.accounts) = Len(accounts) + 1
    /\ SubSeq(a.accounts, 1, Len(accounts)) = accounts
    /\ a.selected_account = Len(accounts)
    /\ a.selected_zone = 0
    /\ a.config_file = a.accounts
    /\ a.calls # <<>>
    /\ a.calls[1] = Call("list_zones", Last(a), None, None, TRUE)
    /\ a.zones = list_zones(a.backend, Last(a), o).res.val
    /\ IF a.zones = <<>>
       THEN Len(a.calls) = 1 /\ a.records = <<>>
       ELSE /\ Len(a.calls) = 2
            /\ a.calls[2] = Call("list_records", Last(a), a.zones[1], None, TRUE)
            /\ a.records = Fresh(a, o).val
    /\ a.mode = ModeNormal
    /\ IsTrimOf(Last(a).name, mode.form.name)
    /\ IsTrimOf(Last(a).api_token, mode.form.api_token)
    /\ IsOptionOf(Last(a).email, mode.form.email)
    /\ IsOptionOf(Last(a).account_id, mode.form.account_id)
    /\ Last(a).auth_mode = "Token"

\* Enter left a without an error
CommittedIfOk(a, o) == ~Failed(a) => Committed(a, o)

\* C10: a successful add-account commit appends the new account last and
\* leaves the existing entries as they were, selects it with selected_zone
\* 0, persists the account list, refreshes zones then records for the new
\* account and leaves the mode Normal; the account has the trimmed name and
\* token, no email or account id when those are blank, and auth mode Token
CommitAppendsAccount ==
    AtAccountCommit =>
        \A o \in Answers(backend, {"save", "zones", "records"}) :
            CommittedIfOk(handle_key(Self, Key("Enter"), o).app, o)

\* a state of C10: a second account was committed from a form whose email
\* and account id were blank
SecondAccountAdded ==
    /\ exit = "running"
    /\ mode = ModeNormal
    /\ Len(accounts) = 2
    /\ selected_account = 1
    /\ selected_zone = 0
    /\ config_file = accounts
    /\ accounts[2].email = None /\ accounts[2].account_id = None
    /\ accounts[2].auth_mode = "Token"
    /\ Ops(calls) = <<"list_zones", "list_records">>
    /\ last_message = <<"Added account", accounts[2].name>>

\* the add-account form is open past its second field, where Enter submits,
\* and the name or the token typed is empty or all whitespace
AtBlankAccountSubmit ==
    /\ exit = "running"
    /\ mode.tag = "AddingAccount"
    /\ mode.form.field_index >= 2
    /\ Blank(mode.form.name) \/ Blank(mode.form.api_token)

\* the submit that left h was refused: the status line holds the validation
\* error and nothing else differs from the state before it, so the form and
\* what was typed, the accounts, the config file and the (empty) list of
\* backend calls are as they were, and the session goes on
Refused(h) ==
    /\ ~h.quit
    /\ ~Failed(h.app)
    /\ h.app.last_message = <<"Name and API token are required">>
    /\ h.app.mode = mode
    /\ h.app.accounts = accounts
    /\ h.app.config_file = config_file
    /\ h.app.calls = <<>>
    /\ h.app = [Self EXCEPT !.last_message = h.app.last_message]

\* C11: in AddingAccount, a submit with the name or the token empty after
\* trimming reports a validation error in the status line, keeps the mode
\* AddingAccount with the typed fields intact, appends no account, writes no
\* config and makes no backend call
BlankAccountRefused ==
    AtBlankAccountSubmit =>
        \A o \in Answers(backend, {"save", "zones", "records"}) :
            Refused(handle_key(Self, Key("Enter"), o))

\* a state of C11: a submit was refused on a form whose name is typed and
\* whose token is whitespace only
BlankTokenRefused ==
    /\ exit = "running"
    /\ mode.tag = "AddingAccount"
    /\ mode.form.field_index >= 2
    /\ last_message = <<"Name and API token are required">>
    /\ ~Blank(mode.form.name)
    /\ mode.form.api_token # <<>> /\ Blank(mode.form.api_token)
    /\ calls = <<>>

\* the ttl text of the open record form is no u32
TtlInvalid == ParseU32(Trim(mode.form.draft.ttl)) = None

\* the record form is open on its last field, where Enter submits, and the
\* ttl typed is no u32 or the name or the type is empty or all whitespace
AtInvalidDraftSubmit ==
    /\ exit = "running"
    /\ mode.tag = "RecordForm"
    /\ mode.form.field_index = 4
    /\ \/ TtlInvalid
       \/ Blank(mode.form.draft.name)
       \/ Blank(mode.form.draft.record_type)

\* the validation error of the open draft: the ttl is tested first
DraftError ==
    IF TtlInvalid THEN "TTL must be a number" ELSE "Name and type are required"

\* the submit that left h was refused: the status line holds the validation
\* error and nothing else differs from the state before it, so the form and
\* its draft, the record list and the (empty) list of backend calls are as
\* they were, and the session goes on
DraftRefused(h) ==
    /\ ~h.quit
    /\ ~Failed(h.app)
    /\ h.app.last_message = <<DraftError>>
    /\ h.app.mode = mode
    /\ h.app.records = records
    /\ h.app.calls = <<>>
    /\ h.app = [Self EXCEPT !.last_message = h.app.last_message]

\* C12: in RecordForm, a submit whose ttl text does not parse as an integer
\* of 0..2^32-1, or whose name or type is empty after trimming, reports a
\* validation error in the status line, keeps the mode RecordForm with the
\* draft intact, makes no backend call and leaves the record list unchanged
InvalidDraftRefused ==
    AtInvalidDraftSubmit =>
        \A o \in Answers(backend, {"write", "records"}) :
            DraftRefused(handle_key(Self, Key("Enter"), o))

\* a state of C12: a submit was refused on a draft whose ttl is ten digits
\* that denote a value above 2^32-1
OverflowingTtlRefused ==
    /\ exit = "running"
    /\ mode.tag = "RecordForm"
    /\ mode.form.field_index = 4
    /\ last_message = <<"TTL must be a number">>
    /\ Len(mode.form.draft.ttl) = Len(U32MaxDigits)
    /\ \A i \in DOMAIN mode.form.draft.ttl : IsDigit(mode.form.draft.ttl[i])
    /\ ~Blank(mode.form.draft.name)
    /\ calls = <<>>

\* '/' left h: the search overlay is open on a buffer equal to the active
\* filter and nothing else has changed
SearchOpened(h) ==
    /\ ~h.quit
    /\ h.app.mode.tag = "Searching"
    /\ h.app.mode.text = record_filter
    /\ h.app = [Self EXCEPT !.mode = h.app.mode]

\* Enter left h: the buffer is the active filter, the first record of the
\* first page is selected, the mode is Normal and nothing else has changed
SearchCommitted(h) ==
    /\ ~h.quit
    /\ h.app.record_filter = mode.text
    /\ h.app.selected_record = 0
    /\ h.app.record_page = 0
    /\ h.app.mode = ModeNormal
    /\ h.app = [Self EXCEPT !.record_filter = mode.text, !.selected_record = 0,
                            !.record_page = 0, !.mode = ModeNormal]

\* C13: starting a search from Normal opens Searching with the buffer equal
\* to the active filter; Enter in Searching sets the active filter to the
\* buffer, sets selected_record and record_page to 0 and returns to Normal,
\* whatever the buffer holds, a buffer equal to the previous filter included
SearchSeedsAndCommits ==
    exit = "running" =>
        \A o \in Answers(backend, {}) :
            /\ mode.tag = "Normal" => SearchOpened(handle_key(Self, Char("/"), o))
            /\ mode.tag = "Searching" => SearchCommitted(handle_key(Self, Key("Enter"), o))

\* a state of C13: the overlay was opened on an active filter, the buffer
\* still equals it, and a record past the first page is selected, so that
\* Enter resets a selection without changing the filter
SearchSeededWithFilter ==
    /\ exit = "running"
    /\ mode.tag = "Searching"
    /\ mode.text = record_filter
    /\ ~Blank(record_filter)
    /\ selected_record > 0
    /\ record_page > 0

\* Esc left h: the mode is Normal, no backend call was made and the lists,
\* the selections, the page and the active filter are as before
Cancelled(h) ==
    /\ ~h.quit
    /\ ~Failed(h.app)
    /\ h.app.mode = ModeNormal
    /\ h.app.calls = <<>>
    /\ Untouched(h.app)
    /\ h.app.record_filter = record_filter
    /\ h.app.backend = backend
    /\ h.app.config_file = config_file

\* C14: Esc in Searching, in RecordForm, in ConfirmDelete, and in
\* AddingAccount when at least one account exists, sets the mode to Normal,
\* makes no backend call and leaves accounts, zones, records, the selected
\* indices, the active filter and the page unchanged
CancelReturnsToNormal ==
    exit = "running" /\ mode.tag # "Normal" /\ accounts # <<>> =>
        \A o \in Answers(backend, {}) : Cancelled(handle_key(Self, Key("Esc"), o))

\* a state of C14: the edit form was opened on a record past the first page
\* of a filtered view and cancelled: the status line still announces the
\* edit, and filter, selection and page are those the form was opened on
EditCancelled ==
    /\ exit = "running"
    /\ mode = ModeNormal
    /\ last_message = <<"Editing DNS record">>
    /\ ~Blank(record_filter)
    /\ selected_record > 0
    /\ record_page > 0
    /\ calls = <<>>

\* the text the cursor of the current modal is on, in the App a; None on the
\* proxied toggle of the record form
ActiveText(a) ==
    CASE a.mode.tag = "AddingAccount" -> Some(a.mode.form[ActiveField(a.mode.form)])
      [] a.mode.tag = "RecordForm" /\ a.mode.form.field_index < 4 ->
            Some(a.mode.form.draft[DraftField(a.mode.form.field_index)])
      [] a.mode.tag = "Searching" -> Some(a.mode.text)
      [] OTHER -> None

\* 'q' left h: the session goes on, the modal is still open with its cursor
\* where it was, and 'q' is at the end of the text under the cursor
QuitKeyTyped(h) ==
    /\ ~h.quit
    /\ ~Failed(h.app)
    /\ h.app.mode.tag = mode.tag
    /\ h.app.calls = <<>>
    /\ ActiveText(Self) # None =>
            ActiveText(h.app) = Some(Append(Unwrap(ActiveText(Self)), "q"))

\* in AddingAccount, RecordForm and Searching the key 'q' is text
QuitKeyIsText ==
    exit = "running" /\ mode.tag \in {"AddingAccount", "RecordForm", "Searching"} =>
        \A o \in Answers(backend, {}) : QuitKeyTyped(handle_key(Self, Char("q"), o))

\* C15: the session ends only when 'q' is pressed in Normal or in
\* ConfirmDelete; in AddingAccount, RecordForm and Searching the key 'q'
\* never ends the session, keeps the modal open and is appended to the
\* active text field
QuitOnlyFromNormalOrConfirm ==
    /\ exit # "running" => exit = "quit" /\ mode.tag \in {"Normal", "ConfirmDelete"}
    /\ QuitKeyIsText

\* the status line of a is the message of the error the handler returned
ShowsFailure(a) ==
    /\ Len(a.last_message) = 1
    /\ a.last_message[1] = Unwrap(a.err)

\* C16: whenever a backend call made by the handler of a key fails, the
\* status line after the handler is the message of the failure
FailureMessageShown ==
    exit = "running" =>
        \A k \in ModeKeys :
            \A o \in Answers(backend, Needs(k)) :
                AnyCallFailed(handle_key(Self, k, o).app) =>
                    ShowsFailure(handle_key(Self, k, o).app)

FirstRunKeys ==
    IF mode.tag = "Normal" THEN FirstRunNormalKeys ELSE FirstRunFormKeys

\* the handler that left a returned the error of Config::save
WriteFailed(a) == Failed(a) /\ Unwrap(a.err) = SaveFailure

\* the handler that left a changed the account list only together with the
\* file, which then holds the whole list, unless writing the file failed
WrittenUnlessWriteFailed(a) ==
    a.accounts # accounts => WriteFailed(a) \/ a.config_file = a.accounts

ListedAt(a) ==
    {i \in DOMAIN a.calls : a.calls[i].op = "list_records" /\ a.calls[i].ok}

\* the last list-records call of a that succeeded
LastListed(a) == a.calls[CHOOSE i \in ListedAt(a) : \A j \in ListedAt(a) : j <= i]

\* a and the current state hold the same selected account and zone
SameTarget(a) ==
    /\ HasTarget(Self)
    /\ Unwrap(current_account(a)) = Unwrap(current_account(Self))
    /\ Unwrap(current_zone(a)) = Unwrap(current_zone(Self))

\* the record list of a, left by a handler under the answers o, is what the
\* backend last listed for the selected account and zone of a: it is empty
\* when none is selected; it is the result of the last successful
\* list-records call of the handler, made for that account and zone; or, when
\* the handler listed nothing, list and selection are those of before
Sourced(a, o) ==
    IF ~HasTarget(a) THEN a.records = <<>>
    ELSE IF ListedAt(a) # {}
    THEN /\ LastListed(a).account = Unwrap(current_account(a))
         /\ LastListed(a).zone = Unwrap(current_zone(a))
         /\ a.records = Fresh(a, o).val
    ELSE a.records = records /\ SameTarget(a)

\* on the deterministic adapter, the record list a handler leaves after a
\* create, update or delete is the list the adapter stores for the zone
MatchesStore(a) ==
    a.backend.kind = "Mock" /\ WriteCalls(a.calls) # <<>> =>
        /\ HasTarget(a)
        /\ MockHas(a.backend, Unwrap(current_zone(a)).id)
        /\ a.records = a.backend.records[Unwrap(current_zone(a)).id]

\* C18: the controller never edits its record list locally: in every
\* reachable state the list is the result of the most recent successful
\* list-records call for the selected account and zone, or is empty when no
\* account or zone is selected; with the deterministic adapter it is the
\* adapter's stored list for the selected zone after every create, update
\* and delete
RecordsComeFromBackend ==
    /\ ~HasTarget(Self) => records = <<>>
    /\ exit = "running" =>
            \A k \in ModeKeys :
                \A o \in Answers(backend, Needs(k)) :
                    /\ Sourced(handle_key(Self, k, o).app, o)
                    /\ MatchesStore(handle_key(Self, k, o).app)

\* the page the view shows when record_page is p
PageAt(p) == paged_records([Self EXCEPT !.record_page = p])

\* the lengths of the pages 0..p of the view, summed
RECURSIVE PageLengthsUpTo(_)
PageLengthsUpTo(p) ==
    IF p < 0 THEN 0 ELSE Len(PageAt(p).val) + PageLengthsUpTo(p - 1)

\* c is the least number of pages of size s that hold n records
IsCeilOf(c, n, s) ==
    IF n = 0 THEN c = 0
    ELSE c >= 1 /\ (c - 1) * s < n /\ n <= c * s

\* page p of the view is the run of n records that starts at offset
\* p * size, and n is between 1 and size
IsRunAt(page, p, size) ==
    /\ page.ok
    /\ Len(page.val) >= 1
    /\ Len(page.val) <= size
    /\ p * size + Len(page.val) <= Len(View)
    /\ \A i \in 1..Len(page.val) : page.val[i] = View[p * size + i]

\* C19: for every page size >= 1 and every number N of filtered records, the
\* page count is ceil(N / size), 0 when N = 0; every page index below the
\* page count yields a slice of 1 to size records that is the contiguous
\* range starting at page * size; and the slice lengths of all pages sum to N
PagesPartitionView ==
    /\ page_size(Self) >= 1
    /\ IsCeilOf(record_page_count(Self, Len(View)), Len(View), page_size(Self))
    /\ \A p \in 0..(record_page_count(Self, Len(View)) - 1) :
            IsRunAt(PageAt(p), p, page_size(Self))
    /\ PageLengthsUpTo(record_page_count(Self, Len(View)) - 1) = Len(View)

\* a state of C19: a filtered view of several pages whose last page, the one
\* shown, is shorter than the page size
ShortLastPageShown ==
    /\ ~Blank(record_filter)
    /\ Len(View) < Len(records)
    /\ page_size(Self) > 1
    /\ Len(View) % page_size(Self) # 0
    /\ record_page_count(Self, Len(View)) >= 3
    /\ record_page = record_page_count(Self, Len(View)) - 1
    /\ Len(paged_records(Self).val) < page_size(Self)

\* the page key left h on page p with the first record of p selected, and
\* nothing else changed
TurnedTo(h, p) ==
    /\ ~h.quit
    /\ h.app.record_page = p
    /\ h.app.selected_record = p * page_size(Self)
    /\ h.app = [Self EXCEPT !.record_page = p, !.selected_record = p * page_size(Self)]

\* the page key left h where it found the App
NotTurned(h) == ~h.quit /\ h.app = Self

\* the page count of the view
PageCount == record_page_count(Self, Len(View))

\* C20: on a non-empty filtered view next-page sets the page to
\* (page + 1) mod pageCount and previous-page to (page - 1) mod pageCount,
\* and each selects the first record of the destination page; on an empty
\* view both change nothing; next-page followed by previous-page restores
\* the page
PageKeysWrap ==
    exit = "running" /\ mode.tag = "Normal" =>
        \A o \in Answers(backend, {}) :
            IF View = <<>>
            THEN /\ NotTurned(handle_key(Self, Key("PageDown"), o))
                 /\ NotTurned(handle_key(Self, Key("PageUp"), o))
            ELSE /\ TurnedTo(handle_key(Self, Key("PageDown"), o),
                             After(record_page, PageCount))
                 /\ TurnedTo(handle_key(Self, Key("PageUp"), o),
                             Before(record_page, PageCount))
                 /\ handle_key(handle_key(Self, Key("PageDown"), o).app,
                               Key("PageUp"), o).app.record_page = record_page

\* a state of C20: the last page of a filtered view of several pages is
\* shown with its first record selected, where next-page wraps to page 0
LastPageTurnedTo ==
    /\ exit = "running"
    /\ mode = ModeNormal
    /\ ~Blank(record_filter)
    /\ PageCount >= 3
    /\ record_page = PageCount - 1
    /\ selected_record = record_page * page_size(Self)
    /\ selected_record > 0

\* the record key left h with record s selected on the page that holds s,
\* and nothing else changed
SteppedToRecord(h, s) ==
    /\ ~h.quit
    /\ h.app.selected_record = s
    /\ h.app.record_page * page_size(Self) <= s
    /\ s < (h.app.record_page + 1) * page_size(Self)
    /\ h.app = [Self EXCEPT !.selected_record = s, !.record_page = h.app.record_page]

\* C21: next-record and previous-record change selected_record by +1 and -1
\* clamped to 0..filteredCount-1, without a wrap at either end, change
\* nothing on an empty filtered view, and leave the page that holds the
\* selection as the current page
RecordKeysClamp ==
    exit = "running" /\ mode.tag = "Normal" /\ focus = "Records" =>
        \A o \in Answers(backend, {}) :
            IF View = <<>>
            THEN /\ NotTurned(handle_key(Self, Key("Down"), o))
                 /\ NotTurned(handle_key(Self, Key("Up"), o))
            ELSE /\ SteppedToRecord(handle_key(Self, Key("Down"), o),
                                    Min(selected_record + 1, Len(View) - 1))
                 /\ SteppedToRecord(handle_key(Self, Key("Up"), o),
                                    Max(selected_record - 1, 0))

\* a state of C21: the last record of a filtered view of several pages is
\* selected past the first record of the last page, where next-record stays
LastRecordSteppedTo ==
    /\ exit = "running"
    /\ mode = ModeNormal
    /\ ~Blank(record_filter)
    /\ PageCount >= 2
    /\ selected_record = Len(View) - 1
    /\ record_page = PageCount - 1
    /\ selected_record > record_page * page_size(Self)

\* selections and pages a resize or a page fix may find, those past the end
\* of the view included
SelectionsTried == 0..(Len(View) + 1)

PagesTried == 0..(PageCount + 1)

\* the App with record s selected and page p current
At(s, p) == [Self EXCEPT !.selected_record = s, !.record_page = p]

\* a is what a resize to height h leaves of b: the size is max(1, h - 3);
\* when the size has changed the page is below the page count, the selection
\* is within the view and no greater than before, and the page is the one
\* that holds the selection (both are 0 on an empty view); when the size has
\* not changed nothing has
ResizedFrom(a, b, h) ==
    /\ a.record_page_size = Max(1, h - 3)
    /\ a = [b EXCEPT !.record_page_size = a.record_page_size,
                     !.record_page = a.record_page,
                     !.selected_record = a.selected_record]
    /\ IF a.record_page_size = b.record_page_size
       THEN a = b
       ELSE /\ a.selected_record <= b.selected_record
            /\ IF View = <<>>
               THEN a.record_page = 0 /\ a.selected_record = 0
               ELSE /\ a.record_page < record_page_count(a, Len(View))
                    /\ a.selected_record <= Len(View) - 1
                    /\ a.record_page = a.selected_record \div a.record_page_size

\* C22: update_record_page_size(h) sets the page size to max(1, h - 3) for
\* every height h; when the size changes, the page is afterwards below the
\* page count (0 on an empty view), selected_record is at most
\* filteredCount - 1 (0 on an empty view) and has not increased, and the page
\* equals selected_record div pageSize; when the size does not change, page
\* and selection are unchanged
ResizeClampsAndResyncs ==
    \A h \in 0..(MaxPageSize + 4) :
        \A s \in SelectionsTried :
            \A p \in PagesTried :
                ResizedFrom(update_record_page_size(At(s, p), h), At(s, p), h)

\* a state of C22: a draw has set a page size of several rows, and a record
\* that is not the first of its page is selected on a later page of a
\* filtered view
ResizedOnLaterPage ==
    /\ exit = "running"
    /\ record_page_size > 1
    /\ record_page_size <= MaxPageSize
    /\ ~Blank(record_filter)
    /\ record_page >= 1
    /\ record_page = selected_record \div record_page_size
    /\ selected_record % record_page_size # 0

\* a is what ensure_record_visible leaves of b: on a non-empty view the page
\* is min(selection div pageSize, pageCount - 1) and the selection is that of
\* b; on an empty view both are 0; nothing else differs from b
MadeVisibleFrom(a, b) ==
    /\ a = [b EXCEPT !.record_page = a.record_page,
                     !.selected_record = a.selected_record]
    /\ IF View = <<>>
       THEN a.record_page = 0 /\ a.selected_record = 0
       ELSE /\ a.selected_record = b.selected_record
            /\ a.record_page = Min(b.selected_record \div page_size(Self), PageCount - 1)

\* a second ensure_record_visible leaves a as it is
VisibleAlready(a) == ensure_record_visible(a, Len(View)) = a

\* C23: ensure_record_visible is idempotent and determined by the selection:
\* for any selection and prior page, one call sets the page to
\* min(selected_record div pageSize, pageCount - 1) whatever the prior page
\* and leaves the selection unchanged on a non-empty view; a second call
\* changes nothing
EnsureVisibleIdempotent ==
    \A s \in SelectionsTried :
        \A p \in PagesTried :
            /\ MadeVisibleFrom(ensure_record_visible(At(s, p), Len(View)), At(s, p))
            /\ VisibleAlready(ensure_record_visible(At(s, p), Len(View)))

\* a state of C23: five matching records in pages of two, and the record at
\* index 4 is selected on page 2, where ensure_record_visible has put it
FifthRecordOnThirdPage ==
    /\ exit = "running"
    /\ Len(View) = 5
    /\ page_size(Self) = 2
    /\ selected_record = 4
    /\ record_page = 2

\* c and d are one letter, case apart
SameLetter(c, d) == LowerChar(c) = LowerChar(d)

\* needle occurs in hay, case apart
OccursIn(needle, hay) ==
    \E at \in 0..(Len(hay) - Len(needle)) :
        \A j \in 1..Len(needle) : SameLetter(hay[at + j], needle[j])

\* the positions of the records whose name, content or type holds the
\* filter text
Matching ==
    {i \in DOMAIN records :
        \/ OccursIn(record_filter, records[i].name)
        \/ OccursIn(record_filter, records[i].content)
        \/ OccursIn(record_filter, records[i].record_type)}

\* the view is the records at the positions of `at`, in their order
ViewIsRecordsAt(at) ==
    /\ Len(View) = Cardinality(at)
    /\ \A k \in DOMAIN View :
            \E i \in at :
                /\ View[k] = records[i]
                /\ Cardinality({j \in at : j < i}) = k - 1

\* C24 as stated: the filtered view is exactly the records, in their
\* original order, for which the filter text is a case-insensitive substring
\* of the name, the content or the record type; with empty filter text the
\* view is the whole record list
ViewIsMatchingRecords ==
    IF record_filter = <<>> THEN View = records ELSE ViewIsRecordsAt(Matching)

\* C24, amended: the filtered view is exactly the records, in their original
\* order, for which the filter text is a case-insensitive substring of the
\* name, the content or the record type; with filter text that is empty or
\* all whitespace the view is the whole record list
ViewIsMatchingUnlessBlank ==
    IF Blank(record_filter) THEN View = records ELSE ViewIsRecordsAt(Matching)

\* a state of C24: an upper-case filter is active and the view holds the
\* first and the second of three records, one matched by its name and one
\* by its content in the other case
FilteredAcrossCase ==
    /\ exit = "running"
    /\ mode = ModeNormal
    /\ record_filter = <<"Q">>
    /\ Len(records) = 3
    /\ View = <<records[1], records[2]>>

\* the key left h with the record list and the adapter as they were and
\* without a backend call
KeepsRecords(h) ==
    /\ ~h.quit
    /\ ~Failed(h.app)
    /\ h.app.records = records
    /\ h.app.backend = backend
    /\ h.app.calls = <<>>

\* a resize left a with the record list as it was and without a backend call
ResizeKeepsRecords(a) ==
    /\ a.records = records
    /\ a.backend = backend
    /\ a.calls = <<>>

\* C25: search submit and cancel, next and previous record, next and
\* previous page and the page resize leave the controller's record list
\* unchanged, the same records in the same order, and make no backend call
ViewKeysKeepRecords ==
    exit = "running" =>
        /\ \A o \in Answers(backend, {}) :
                /\ mode.tag = "Searching" =>
                        /\ KeepsRecords(handle_key(Self, Key("Enter"), o))
                        /\ KeepsRecords(handle_key(Self, Key("Esc"), o))
                /\ mode.tag = "Normal" /\ focus = "Records" =>
                        /\ KeepsRecords(handle_key(Self, Key("Down"), o))
                        /\ KeepsRecords(handle_key(Self, Key("Up"), o))
                        /\ KeepsRecords(handle_key(Self, Key("PageDown"), o))
                        /\ KeepsRecords(handle_key(Self, Key("PageUp"), o))
        /\ \A h \in 0..6 : ResizeKeepsRecords(update_record_page_size(Self, h))

\* a state of C25: a filter that hides one of three records was committed
\* and the view walked to its second page; the list still holds the three
SecondPageOfNarrowedView ==
    /\ exit = "running"
    /\ mode = ModeNormal
    /\ ~Blank(record_filter)
    /\ Len(records) = 3
    /\ Len(View) = 2
    /\ record_page = 1
    /\ selected_record = 1
    /\ calls = <<>>

\* the zone step left a on the zone at index `to`: the account and the zone
\* list are as before, and the one call issued is a list-records call for
\* the selected account and that zone
ZoneSteppedTo(a, to) ==
    /\ a.selected_zone = to
    /\ a.selected_account = selected_account
    /\ a.accounts = accounts
    /\ a.zones = zones
    /\ Len(a.calls) = 1
    /\ a.calls[1] = Call("list_records", accounts[selected_account + 1],
                         zones[to + 1], None, a.calls[1].ok)

\* the zone step left a with the first record of the first page selected
SelectionReset(a) == a.selected_record = 0 /\ a.record_page = 0

\* the zone step left a, by cases: when the list-records call succeeded the
\* list is its result and selection and page are 0; when it failed the
\* handler returns the error and list, selection and page are as before
ListedOrKept(a, o) ==
    IF a.calls[1].ok
    THEN ~Failed(a) /\ a.records = o.records.val /\ SelectionReset(a)
    ELSE /\ Failed(a)
         /\ a.records = records
         /\ a.selected_record = selected_record
         /\ a.record_page = record_page

\* a zone key is about to be handled
AtZoneStep == exit = "running" /\ mode.tag = "Normal" /\ focus = "Zones"

Holds(a, rec) == a.mode = ModeConfirmDelete(rec.id, rec.name)

\* the open delete modal holds the record at selected_record of the filtered
\* view, and that record's id is in the record list
HoldsCurrentRecord ==
    /\ selected_record < Len(View)
    /\ Holds(Self, View[selected_record + 1])
    /\ \E i \in DOMAIN records : records[i].id = mode.record_id

\* the handler of key k, given answers o, took a to the delete modal only
\* from Normal, by a delete request, with a current record that it holds
EnteredFromNormal(a, k) ==
    a.mode.tag = "ConfirmDelete" =>
        /\ mode.tag = "Normal"
        /\ k = Char("d")
        /\ selected_record < Len(View)
        /\ Holds(a, View[selected_record + 1])

\* C27: ConfirmDelete is entered only from Normal and only when a current
\* record exists; the held id and name are those of the record at
\* selected_record in the filtered view, and while the modal is open that id
\* is in the record list; with no current record a delete request leaves
\* the mode Normal
ConfirmDeleteHoldsCurrentRecord ==
    /\ mode.tag = "ConfirmDelete" => HoldsCurrentRecord
    /\ exit = "running" /\ mode.tag # "ConfirmDelete" =>
            \A k \in ModeKeys :
                \A o \in Answers(backend, Needs(k)) :
                    EnteredFromNormal(handle_key(Self, k, o).app, k)
    /\ exit = "running" /\ mode.tag = "Normal" =>
            \A o \in Answers(backend, {}) :
                IF selected_record < Len(View)
                THEN Holds(handle_key(Self, Char("d"), o).app,
                           View[selected_record + 1])
                ELSE handle_key(Self, Char("d"), o).app.mode = ModeNormal

\* a state of C27: the delete modal is open on a record of a filtered view
\* that is not the record at that position of the whole record list
ConfirmOnNarrowedView ==
    /\ exit = "running"
    /\ mode.tag = "ConfirmDelete"
    /\ Blank(record_filter) = FALSE
    /\ Len(View) < Len(records)
    /\ selected_record < Len(View)
    /\ mode.record_id = View[selected_record + 1].id
    /\ mode.record_id # records[selected_record + 1].id

\* the record types of the list recs, in order
Types(recs) == [i \in DOMAIN recs |-> recs[i].record_type]

\* list-records for zone on adapter b, called twice in a row, returns the
\* records stored for the zone, or the three seeded records when none are
\* stored yet, both times, and the second call leaves the adapter as the
\* first left it
ListsTwiceAlike(b, zone, first) ==
    /\ first.res = Ok(IF MockHas(b, zone.id) THEN b.records[zone.id]
                      ELSE SeedRecords(zone))
    /\ MockHas(b, zone.id) => first.backend = b
    /\ MockListRecords(first.backend, zone) = first
    /\ Len(SeedRecords(zone)) = 3
    /\ Types(SeedRecords(zone)) = << <<"A">>, <<"C", "N", "A", "M", "E">>, <<"M", "X">> >>

\* list-zones for account returns two zones, named after the account, and
\* leaves the adapter as it was
ListsTwoZones(account, listed) ==
    /\ listed.backend = backend
    /\ listed.res = Ok(MockListZones(account))
    /\ Len(MockListZones(account)) = 2
    /\ MockListZones(account)[1] # MockListZones(account)[2]

\* C28: on the deterministic adapter list-zones returns the same two zones
\* for the same account on every call, and list-records for a zone returns
\* the same three seeded records on every call until a create, update or
\* delete for that zone: two list calls in a row return equal results, and
\* the lists the session holds are what a further call returns
MockListsRepeat ==
    backend.kind = "Mock" =>
        \A i \in DOMAIN accounts :
            \A o \in Answers(backend, {"zones", "records"}) :
                /\ ListsTwoZones(accounts[i], list_zones(backend, accounts[i], o))
                /\ i = selected_account + 1 => zones = MockListZones(accounts[i])
                /\ \A j \in 1..2 :
                        ListsTwiceAlike(backend, MockListZones(accounts[i])[j],
                                        list_records(backend, accounts[i],
                                                     MockListZones(accounts[i])[j], o))
                /\ i = selected_account + 1 =>
                        /\ list_records(backend, accounts[i], zones[selected_zone + 1], o).res
                                = Ok(records)
                        /\ writes = 0 => records = SeedRecords(zones[selected_zone + 1])

\* a state of C28: a record was created in the first zone, whose list now
\* has four records, while the second zone was never listed
ListedAfterCreate ==
    /\ backend.kind = "Mock"
    /\ exit = "running"
    /\ mode = ModeNormal
    /\ writes = 1
    /\ Len(records) = 4
    /\ MockHas(backend, zones[1].id)
    /\ backend.records[zones[1].id] = records
    /\ MockHas(backend, zones[2].id) = FALSE

\* an id no record of the deterministic adapter carries
AbsentId == <<"n", "o", "n", "e">>

\* the ids of the records recs, and an absent one
IdsTried(recs) == {recs[i].id : i \in DOMAIN recs} \cup {AbsentId}

\* the record an update carries under id
Replacement(id) == DnsRecord(id, <<"n", "e", "w">>, <<"A">>, <<"1">>, 60, FALSE)

\* the records the deterministic adapter b lists for zone
Listed(b, zone) == MockListRecords(b, zone).res.val

\* updated is what an update carrying rec returned on a zone that listed
\* before: the call succeeded; one record whose id matched holds rec at its
\* position and the list is otherwise as before, or no id matched and the
\* list is as before
ReplacedInPlace(updated, zone, rec, before) ==
    /\ updated.res = Ok(rec)
    /\ Len(Listed(updated.backend, zone)) = Len(before)
    /\ IF \E at \in DOMAIN before : before[at].id = rec.id
       THEN \E at \in DOMAIN before :
                /\ before[at].id = rec.id
                /\ Listed(updated.backend, zone) = [before EXCEPT ![at] = rec]
       ELSE Listed(updated.backend, zone) = before

\* C29: on the deterministic adapter update replaces the record whose id
\* matches, at the same position, and leaves the number and order of records
\* and every other record unchanged; when no record has that id the list is
\* unchanged and the call still succeeds
UpdateReplacesInPlace ==
    backend.kind = "Mock" =>
        \A j \in DOMAIN zones :
            \A id \in IdsTried(Listed(backend, zones[j])) :
                ReplacedInPlace(MockUpdateRecord(backend, zones[j], Replacement(id)),
                                zones[j], Replacement(id), Listed(backend, zones[j]))

\* a state of C29: the session has updated the first of the three seeded
\* records, which is listed at the same position under the new name, before
\* the two other seeded records
FirstRecordUpdated ==
    /\ backend.kind = "Mock"
    /\ exit = "running"
    /\ mode = ModeNormal
    /\ Ops(calls) = <<"update_record", "list_records">>
    /\ Len(records) = 3
    /\ records[1].id = SeedRecords(zones[1])[1].id
    /\ records[1].name # SeedRecords(zones[1])[1].name
    /\ records[2] = SeedRecords(zones[1])[2]
    /\ records[3] = SeedRecords(zones[1])[3]

\* the records of recs, in order, whose id is not id
Without(recs, id) == SelectSeq(recs, LAMBDA r : r.id # id)

\* deleted is what a delete of id returned on adapter b, which stores
\* records for zone: the call succeeded, the zone lists the other records in
\* their order (none, without being seeded again, when no other is left),
\* and a second delete of id changes nothing
RemovedById(deleted, b, zone, id) ==
    /\ deleted.res = Ok(TRUE)
    /\ MockHas(deleted.backend, zone.id)
    /\ deleted.backend.records[zone.id] = Without(b.records[zone.id], id)
    /\ Listed(deleted.backend, zone) = Without(b.records[zone.id], id)
    /\ MockListRecords(deleted.backend, zone).backend = deleted.backend
    /\ \A z \in DOMAIN b.records \ {zone.id} :
            deleted.backend.records[z] = b.records[z]
    /\ MockDeleteRecord(deleted.backend, zone, id) = deleted
    /\ (\A i \in DOMAIN b.records[zone.id] : b.records[zone.id][i].id # id) =>
            deleted.backend = b

\* C30: on the deterministic adapter delete removes the record with the
\* given id and leaves the other records and their order unchanged; deleting
\* an absent id changes nothing and succeeds, so delete is idempotent; a
\* zone whose records were all deleted lists as empty afterwards and is not
\* seeded again.  The records of a zone are those the adapter stores for it:
\* a zone that was never listed stores none, and a delete leaves it so
DeleteRemovesById ==
    backend.kind = "Mock" =>
        \A j \in DOMAIN zones :
            \A id \in IdsTried(Listed(backend, zones[j])) :
                IF MockHas(backend, zones[j].id)
                THEN RemovedById(MockDeleteRecord(backend, zones[j], id),
                                 backend, zones[j], id)
                ELSE MockDeleteRecord(backend, zones[j], id)
                        = [backend |-> backend, res |-> Ok(TRUE)]

\* a state of C30: the session has deleted the three seeded records of the
\* first zone one after the other, and the zone, still stored, lists as empty
AllRecordsDeleted ==
    /\ backend.kind = "Mock"
    /\ exit = "running"
    /\ mode = ModeNormal
    /\ Ops(calls) = <<"delete_record", "list_records">>
    /\ writes = 3
    /\ MockHas(backend, zones[1].id)
    /\ backend.records[zones[1].id] = <<>>
    /\ records = <<>>

\* the call returned the error of a body that did not parse
IsParseError(outcome) ==
    /\ outcome # Panic
    /\ ~outcome.ok
    /\ DOMAIN outcome.msg = {"context", "text"}

\* the envelope whose text the body is
EnvelopeOf(text) == CHOOSE e \in Envelopes : Serialize(e) = text

\* the call returned a result to the Controller
Succeeded(outcome) == outcome # Panic /\ outcome.ok

\* the call returned an error that holds the status and the first message of
\* envelope e, or the generic message when e lists no error
ReportsStatusAndMessage(outcome, status, e) ==
    /\ outcome # Panic
    /\ ~outcome.ok
    /\ {"status", "message"} \subseteq DOMAIN outcome.msg
    /\ outcome.msg.status = status
    /\ outcome.msg.message = error_message(e)
    /\ e.errors # <<>> => outcome.msg.message = e.errors[1].message

\* C31: a network-adapter call succeeds if and only if the HTTP status is a
\* success code and the envelope's success flag is true; in every other
\* parsed case it returns an error whose text contains the HTTP status and
\* the first message of the envelope's error list (a generic fallback when
\* the list is empty), and returns no result
CallSucceedsIffAccepted ==
    wire # NoExchange /\ ~IsParseError(wire.outcome) =>
        IF /\ IsSuccess(wire.response.status)
           /\ EnvelopeOf(wire.response.text).success
        THEN Succeeded(wire.outcome)
        ELSE ReportsStatusAndMessage(wire.outcome, wire.response.status,
                                     EnvelopeOf(wire.response.text))

\* C32: when a response body does not parse as the envelope, the call fails
\* with an error that carries at most the first 200 characters of the body
ParseErrorCarriesPrefix ==
    wire # NoExchange /\ IsParseError(wire.outcome) =>
        /\ Len(wire.outcome.msg.text) <= LIMIT
        /\ wire.outcome.msg.text
                = SubSeq(wire.response.text, 1, Len(wire.outcome.msg.text))

\* the names of the headers hs, in order
HeaderNames(hs) == [i \in DOMAIN hs |-> hs[i].name]

\* C33: the network adapter picks authentication from auth_mode alone: Token
\* sends exactly a bearer header with api_token; GlobalKey with an email
\* sends exactly the email and key headers; GlobalKey without an email sends
\* no authentication header; no request carries both schemes
AuthFromModeAlone ==
    wire # NoExchange =>
        /\ wire.account.auth_mode = "Token" =>
                /\ HeaderNames(wire.headers) = <<"Authorization">>
                /\ wire.headers[1].value
                        = <<"B", "e", "a", "r", "e", "r", " ">> \o wire.account.api_token
        /\ wire.account.auth_mode = "GlobalKey" /\ wire.account.email # None =>
                /\ HeaderNames(wire.headers) = <<"X-Auth-Email", "X-Auth-Key">>
                /\ wire.headers[1].value = Unwrap(wire.account.email)
                /\ wire.headers[2].value = wire.account.api_token
        /\ wire.account.auth_mode = "GlobalKey" /\ wire.account.email = None =>
                wire.headers = <<>>
        /\ ~(\E i, j \in DOMAIN wire.headers :
                /\ wire.headers[i].name = "Authorization"
                /\ wire.headers[j].name \in {"X-Auth-Email", "X-Auth-Key"})

\* a state of C33: a request was sent for a Token account that has an email,
\* with the bearer header alone
BearerSentDespiteEmail ==
    /\ wire # NoExchange
    /\ wire.account.auth_mode = "Token"
    /\ wire.account.email # None
    /\ HeaderNames(wire.headers) = <<"Authorization">>

\* Enter, given answers o, only moved the cursor of the add-account form to
\* the next field
OnlyAdvanced(a) == a = [Self EXCEPT !.mode.form.field_index = @ + 1]

\* C34: in AddingAccount the cursor stays within fields 0..3, and Enter
\* attempts to commit (or reports the validation error) only when the cursor
\* is on the last field (index 3); on fields 0, 1 and 2 Enter only advances
\* the cursor by one
EnterCommitsOnLastFieldOnly ==
    mode.tag = "AddingAccount" =>
        /\ mode.form.field_index \in 0..3
        /\ exit = "running" /\ mode.form.field_index < 3 =>
                \A o \in Answers(backend, Needs(Key("Enter"))) :
                    OnlyAdvanced(handle_key(Self, Key("Enter"), o).app)

\* the update calls among the calls cs
UpdateCalls(cs) == SelectSeq(cs, LAMBDA c : c.op = "update_record")

\* every update among the calls cs carries the id the open form holds as
\* its target, and not the placeholder id
CarryTarget(cs) ==
    \A i \in DOMAIN UpdateCalls(cs) :
        /\ mode.form.target_id # None
        /\ UpdateCalls(cs)[i].arg.id = Unwrap(mode.form.target_id)
        /\ UpdateCalls(cs)[i].arg.id # <<"n", "e", "w">>

\* the edit form a was opened on the selected record of the filtered view,
\* whose id it holds as its target when there is one
OpenedOnCurrent(a) ==
    /\ a.mode.tag = "RecordForm"
    /\ a.mode.form.is_edit
    /\ selected_record < Len(View) =>
            /\ a.mode.form.target_id # None
            /\ Unwrap(a.mode.form.target_id) = View[selected_record + 1].id

\* C35: every update dispatched to the backend from the edit flow carries
\* the id of a record that was the selected record of the filtered view when
\* the form was opened; the placeholder id "new" is never sent in an update
UpdateCarriesSelectedId ==
    /\ exit = "running" /\ mode.tag = "Normal" =>
            \A o \in Answers(backend, Needs(Char("e"))) :
                OpenedOnCurrent(handle_key(Self, Char("e"), o).app)
    /\ exit = "running" /\ mode.tag = "RecordForm" =>
            \A k \in ModeKeys :
                \A o \in Answers(backend, Needs(k)) :
                    /\ CarryTarget(handle_key(Self, k, o).app.calls)
                    /\ handle_key(Self, k, o).app.mode.tag = "RecordForm" =>
                            handle_key(Self, k, o).app.mode.form.target_id
                                = mode.form.target_id

\* C36: in every reachable state with a non-empty filtered view, record_page
\* equals selected_record div pageSize: the selected record is on the
\* displayed page after every key event and resize
PageFollowsSelection ==
    View # <<>> => record_page = selected_record \div page_size(Self)

\* a state of C36: with two records to a page, the third record is selected
\* and the second page is shown
ThirdRecordOnSecondPage ==
    /\ exit = "running"
    /\ mode = ModeNormal
    /\ page_size(Self) = 2
    /\ Len(View) >= 3
    /\ selected_record = 2
    /\ record_page = 1

\* key k is the submit of a search
IsSubmit(k) == mode.tag = "Searching" /\ k = Key("Enter")

\* key k moves to another account or zone
IsNavigation(k) ==
    /\ mode.tag = "Normal"
    /\ k \in {Key("Up"), Key("Down")}
    /\ \/ focus = "Accounts" /\ accounts # <<>>
       \/ focus = "Zones" /\ zones # <<>>

\* the handler of key k left a with the filter of the current state, unless
\* k submitted a search
FilterKept(a, k) == IsSubmit(k) \/ a.record_filter = record_filter

\* a has the selection and the page at 0
AtFirstRecord(a) == a.selected_record = 0 /\ a.record_page = 0

\* a has the selection and the page at 0 when no call failed, and where they
\* were when one did
ResetUnlessFailed(a) ==
    IF AnyCallFailed(a)
    THEN a.selected_record = selected_record /\ a.record_page = record_page
    ELSE AtFirstRecord(a)

\* C37: the active record filter changes only when a search is
\* submitted: account navigation, zone navigation, refresh, add-account
\* commit, create, update, delete and page resize leave it unchanged, so a
\* filter stays in force across zone and account changes while selection
\* and page are reset to 0
FilterStaysSelectionReset ==
    exit = "running" =>
        /\ \A h \in AreaHeights :
                update_record_page_size(Self, h).record_filter = record_filter
        /\ \A k \in ModeKeys :
                \A o \in Answers(backend, Needs(k)) :
                    /\ FilterKept(handle_key(Self, k, o).app, k)
                    /\ IsNavigation(k) => AtFirstRecord(handle_key(Self, k, o).app)

\* what the code does of C37: the active record filter changes only when a
\* search is submitted; every other key and the page resize leave it
\* unchanged, so a filter stays in force across zone and account changes,
\* while selection and page are reset to 0 when the calls of the change
\* succeed and left as they were when one fails
FilterChangesOnSubmitOnly ==
    exit = "running" =>
        /\ \A h \in AreaHeights :
                update_record_page_size(Self, h).record_filter = record_filter
        /\ \A k \in ModeKeys :
                \A o \in Answers(backend, Needs(k)) :
                    /\ FilterKept(handle_key(Self, k, o).app, k)
                    /\ IsNavigation(k) => ResetUnlessFailed(handle_key(Self, k, o).app)

\* a state of the above: a filter is in force, and the step to the second zone
\* has listed its records and reset the selection and the page
FilterInForceOnSecondZone ==
    /\ exit = "running"
    /\ mode = ModeNormal
    /\ focus = "Zones"
    /\ Blank(record_filter) = FALSE
    /\ selected_zone = 1
    /\ Ops(calls) = <<"list_records">>
    /\ Len(View) < Len(records)
    /\ selected_record = 0
    /\ record_page = 0


\* the key cancels the modal of the current mode
IsCancel(k) == k = Key("Esc")

\* the handler of the current mode takes the key to its committing branch
TakesCommitBranch(k) ==
    /\ k = Key("Enter")
    /\ mode.tag = "AddingAccount" => mode.form.field_index >= 2
    /\ mode.tag = "RecordForm" => mode.form.field_index >= 4

\* the key commits the modal of the current mode: its form is accepted
Commits(k) ==
    /\ TakesCommitBranch(k)
    /\ mode.tag = "AddingAccount" => build_account(mode.form).ok
    /\ mode.tag = "RecordForm" => to_record(mode.form.draft, <<"n", "e", "w">>).ok

\* a differs from the current state in the payload of its modal only
PayloadOnly(a) == a.mode.tag = mode.tag /\ a = [Self EXCEPT !.mode = a.mode]

\* a kept the lists, the selections, the focus, the filter, the page and the
\* filtered view of the current state, stayed in its modal and made no call
ModalFrame(a) ==
    /\ Untouched(a)
    /\ a.focus = focus
    /\ a.record_filter = record_filter
    /\ a.calls = <<>>
    /\ a.mode.tag = mode.tag
    /\ filtered_records(a) = View

\* C38: while the mode is AddingAccount, RecordForm, ConfirmDelete or
\* Searching, a key that neither commits nor cancels the modal leaves the
\* accounts, zones, records, selected indices, focus, active filter, page
\* and filtered view unchanged and makes no backend call; unless it is an
\* Enter whose form is rejected (which sets the message), it changes nothing
\* but the payload of the modal
ModalKeyChangesPayloadOnly ==
    exit = "running" /\ mode.tag # "Normal" =>
        \A k \in ModeKeys :
            ~IsCancel(k) /\ ~Commits(k) =>
                \A o \in Answers(backend, Needs(k)) :
                    /\ ModalFrame(handle_key(Self, k, o).app)
                    /\ ~TakesCommitBranch(k) => PayloadOnly(handle_key(Self, k, o).app)

\* a state of C38: the search buffer holds typed text that would narrow the
\* view, and the view is still the one of the active filter
TypedSearchNotYetApplied ==
    /\ mode.tag = "Searching"
    /\ mode.text # record_filter
    /\ View # <<>>
    /\ filtered_records([Self EXCEPT !.record_filter = mode.text]) # View


\* adapter b1 stores for every zone id but zone_id what adapter b stores, and
\* stores no zone id that b does not store, but zone_id
OthersKept(b, b1, zone_id) ==
    /\ DOMAIN b1.records \subseteq DOMAIN b.records \cup {zone_id}
    /\ \A id \in DOMAIN b.records :
            id # zone_id => id \in DOMAIN b1.records /\ b1.records[id] = b.records[id]

\* the call outcome `other`, made for some account, is the outcome `mine` and
\* leaves the zones other than zone alone
ZoneLocal(b, zone, mine, other) ==
    /\ other = mine
    /\ OthersKept(b, mine.backend, zone.id)

\* C39: on the deterministic adapter a create, update or delete for zone z
\* leaves the stored records of every other zone id unchanged, list-records
\* for one zone never seeds or changes another zone, and what a call does
\* depends on the zone id and not on the account passed: each call made for
\* any account does what it does for the session's account, a stored zone
\* is found by its id alone, and no key changes the stored records of a zone
\* other than the current one
MockZonesIndependent ==
    backend.kind = "Mock" /\ exit = "running" =>
        /\ \A o \in Answers(backend, {}) :
             \A j \in DOMAIN zones :
                \A i \in DOMAIN NetAccounts :
                    /\ ZoneLocal(backend, zones[j],
                                 list_records(backend, AccDemo, zones[j], o),
                                 list_records(backend, NetAccounts[i], zones[j], o))
                    /\ MockHas(backend, zones[j].id) =>
                            list_records(backend, NetAccounts[i],
                                         Zone(zones[j].id, <<>>), o)
                                = list_records(backend, AccDemo, zones[j], o)
                    /\ \A n \in DOMAIN records :
                            /\ ZoneLocal(backend, zones[j],
                                         backend_create_record(backend, AccDemo, zones[j],
                                                               records[n], o),
                                         backend_create_record(backend, NetAccounts[i],
                                                               zones[j], records[n], o))
                            /\ ZoneLocal(backend, zones[j],
                                         backend_update_record(backend, AccDemo, zones[j],
                                                               records[n], o),
                                         backend_update_record(backend, NetAccounts[i],
                                                               zones[j], records[n], o))
                            /\ ZoneLocal(backend, zones[j],
                                         backend_delete_record(backend, AccDemo, zones[j],
                                                               records[n].id, o),
                                         backend_delete_record(backend, NetAccounts[i],
                                                               zones[j], records[n].id, o))
        /\ \A k \in ModeKeys :
                \A o \in Answers(backend, Needs(k)) :
                    current_zone(handle_key(Self, k, o).app) # None =>
                        OthersKept(backend, handle_key(Self, k, o).app.backend,
                                   Unwrap(current_zone(handle_key(Self, k, o).app)).id)

\* a state of C39: both zones are stored and the records of each were
\* changed by a write
BothZonesWritten ==
    /\ backend.kind = "Mock"
    /\ exit = "running"
    /\ mode = ModeNormal
    /\ Len(zones) = 2
    /\ MockHas(backend, zones[1].id) /\ MockHas(backend, zones[2].id)
    /\ backend.records[zones[1].id] # SeedRecords(zones[1])
    /\ backend.records[zones[2].id] # SeedRecords(zones[2])

====
